---- MODULE Spec2Model ----
(***************************************************************************)
(* RuneTUI: the layout engine (layout.go, measure helpers, box, text),     *)
(* the Static component and its StaticManager, and the App's View/Update.  *)
(*                                                                         *)
(* A string is a sequence of atoms.  The content of a Text is a sequence   *)
(* of runes: "a".."e" are one byte wide, "U2" is a rune of two bytes and   *)
(* "NL" is the newline.  Go's runtime panic is the value Panic.            *)
(***************************************************************************)
EXTENDS Integers, Sequences, FiniteSets, TLC

VARIABLES
    root,                   \* the component tree the root function yields
    logs,                   \* the closure state read by a Static's itemsFunc
    terminalWidth,          \* LayoutEngine.terminalWidth
    terminalHeight,         \* LayoutEngine.terminalHeight
    managers,               \* every StaticManager: staticBuffer and staticKeys
    currentStaticManager,   \* the package-level variable of static.go
    tree,                   \* the LayoutTree of the last CalculateLayout
    last,                   \* the inputs of the last CalculateLayout, and how
                            \* many calls in a row had these inputs (at most 2)
    recorded,               \* per manager, the keys appended or rendered
                            \* since its last Clear (history)
    ret,                    \* the last API call: name, arguments, result
    panicked,               \* a runtime panic ended the program
    args,                   \* the arguments drawn for a call of a measure
                            \* function, NoCall when none is drawn
    views,                  \* per App, how far a View() call running on its
                            \* own goroutine has come, and which managers
                            \* its Static renders observed and appended to
                            \* (history)
    run                     \* the App and its Bubble Tea program: whether
                            \* WithUpdate set an update function, the context
                            \* given to RunContext, the program's status, the
                            \* messages not yet handled, and the last
                            \* WindowSizeMsg handled (history)

vars == <<root, logs, terminalWidth, terminalHeight, managers,
          currentStaticManager, tree, last, recorded, ret, panicked, args, views,
          run>>

\* ---------------------------------------------------------------- bounds
MaxChildren == 2
MaxLogs == 2
MaxBuffer == 3

\* ---------------------------------------------------------------- values
Nil == [kind |-> "nil"]
NoTree == [kind |-> "none"]
NoCall == [op |-> "none"]
Panic == [panic |-> "runtime error: integer divide by zero"]

IsPanic(v) == "panic" \in DOMAIN v

Abs(n) == IF n < 0 THEN -n ELSE n

\* Go's integer division truncates toward zero.
\* Mutant: division rounds toward minus infinity.
GoDivFloor(a, b) == a \div b

GoDiv(a, b) ==
    LET q == Abs(a) \div Abs(b)
    IN  IF (a < 0) # (b < 0) THEN -q ELSE q

DimensionUnset == [t |-> "unset"]
DimensionAuto == [t |-> "auto"]
DimensionFixed(value) == [t |-> "fixed", value |-> value]
DimensionPercent(value) == [t |-> "percent", value |-> value]

Spacing(top, right, bottom, left) ==
    [Top |-> top, Right |-> right, Bottom |-> bottom, Left |-> left]

SpacingAll(value) == Spacing(value, value, value, value)

\* The zero value of BoxProps.
BoxProps ==
    [Direction |-> "Column", Width |-> DimensionUnset, Height |-> DimensionUnset,
     MinWidth |-> 0, MinHeight |-> 0, MaxWidth |-> 0, MaxHeight |-> 0,
     FlexGrow |-> 0, FlexShrink |-> 0,
     AlignItems |-> "AlignStart", JustifyContent |-> "JustifyStart",
     Padding |-> SpacingAll(0), Margin |-> SpacingAll(0),
     Gap |-> 0, Border |-> "BorderNone", Key |-> ""]

Box(props, children) == [kind |-> "box", props |-> props, children |-> children]

Text(content, wrap) ==
    [kind |-> "text", content |-> content, props |-> [Wrap |-> wrap, Key |-> ""]]

Static(key) == [kind |-> "static", props |-> [Key |-> key]]

ComponentFunc(c) == [kind |-> "func", f |-> c]

Spacer(size) ==
    Box([BoxProps EXCEPT !.Width = DimensionFixed(size),
                         !.Height = DimensionFixed(size)], <<>>)

VStack(children) == Box([BoxProps EXCEPT !.Direction = "Column"], children)

HStack(children) == Box([BoxProps EXCEPT !.Direction = "Row"], children)

\* ---------------------------------------------------------------- strings
RuneBytes(r) == IF r = "U2" THEN 2 ELSE 1

RECURSIVE len(_)
\* Go's len of a string: its length in bytes.
len(content) ==
    IF content = <<>> THEN 0
    ELSE RuneBytes(Head(content)) + len(Tail(content))

\* The string "\n".
NewLine == <<[newline |-> TRUE]>>

RECURSIVE Join(_, _)
\* strings.Join
Join(parts, sep) ==
    IF parts = <<>> THEN <<>>
    ELSE IF Len(parts) = 1 THEN parts[1]
    ELSE parts[1] \o sep \o Join(Tail(parts), sep)

\* ---------------------------------------------------------------- measure
\* Mutant: Auto and an unset dimension fill the available space.
resolveDimensionAutoFills(dim, available) ==
    CASE dim.t = "fixed" -> dim.value
      [] dim.t = "percent" -> GoDiv(available * dim.value, 100)
      [] dim.t = "auto" -> available
      [] OTHER -> available

resolveDimension(dim, available) ==
    CASE dim.t = "fixed" -> dim.value
      [] dim.t = "percent" -> GoDiv(available * dim.value, 100)
      [] dim.t = "auto" -> 0
      [] OTHER -> 0

\* Mutant: spacing takes no width.
spacingWidthNone(s) == 0

spacingWidth(s) == s.Left + s.Right

\* Mutant: the bottom side is forgotten.
spacingHeightTopOnly(s) == s.Top

spacingHeight(s) == s.Top + s.Bottom

\* Mutant: a border counted as one cell per axis, so none on the left and top.
borderSizeOneCell(style) == IF style = "BorderNone" THEN <<0, 0>> ELSE <<1, 1>>

borderSize(style) == IF style = "BorderNone" THEN <<0, 0>> ELSE <<2, 2>>

\* Mutant: the minimum is applied after the maximum, so the minimum wins.
applyConstraintsMinLast(size, minWidth, minHeight, maxWidth, maxHeight) ==
    LET w1 == IF maxWidth > 0 /\ size.Width > maxWidth THEN maxWidth ELSE size.Width
        w2 == IF minWidth > 0 /\ w1 < minWidth THEN minWidth ELSE w1
        h1 == IF maxHeight > 0 /\ size.Height > maxHeight THEN maxHeight ELSE size.Height
        h2 == IF minHeight > 0 /\ h1 < minHeight THEN minHeight ELSE h1
    IN  [Width |-> w2, Height |-> h2]

applyConstraints(size, minWidth, minHeight, maxWidth, maxHeight) ==
    LET w1 == IF minWidth > 0 /\ size.Width < minWidth THEN minWidth ELSE size.Width
        w2 == IF maxWidth > 0 /\ w1 > maxWidth THEN maxWidth ELSE w1
        h1 == IF minHeight > 0 /\ size.Height < minHeight THEN minHeight ELSE size.Height
        h2 == IF maxHeight > 0 /\ h1 > maxHeight THEN maxHeight ELSE h1
    IN  [Width |-> w2, Height |-> h2]

\* text.Measure: one line of len(content) bytes, wrapped or truncated.
textMeasure(t, availableWidth, availableHeight) ==
    LET width == len(t.content)
    IN  IF t.props.Wrap = "WrapWord" /\ width > availableWidth
        THEN IF availableWidth = 0
             THEN Panic
             ELSE [Width |-> availableWidth,
                   Height |-> GoDiv(width + availableWidth - 1, availableWidth)]
        ELSE IF t.props.Wrap = "WrapTruncate" /\ width > availableWidth
        THEN [Width |-> availableWidth, Height |-> 1]
        ELSE [Width |-> width, Height |-> 1]

\* The closure handed to Static: one Text per log line.
itemsFunc(s) == [i \in 1..Len(logs) |-> Text(logs[i], "WrapNone")]

RECURSIVE Measure(_, _, _)
RECURSIVE measureChildren(_, _, _, _, _)
RECURSIVE staticItems(_, _, _, _)

\* Mutant: the gap is added for every child, the first included.
measureChildrenGapEach(props, children, i, acc, avail) ==
    IF i > Len(children) THEN acc
    ELSE LET childSize == Measure(children[i], avail[1], avail[2])
             gap == IF props.Gap > 0 THEN props.Gap ELSE 0
         IN  IF IsPanic(childSize) THEN Panic
             ELSE IF props.Direction = "Row"
             THEN measureChildren(props, children, i + 1,
                    [acc EXCEPT !.totalWidth = @ + childSize.Width + gap,
                                !.maxHeight = IF childSize.Height > @
                                              THEN childSize.Height ELSE @],
                    avail)
             ELSE measureChildren(props, children, i + 1,
                    [acc EXCEPT !.totalHeight = @ + childSize.Height + gap,
                                !.maxWidth = IF childSize.Width > @
                                             THEN childSize.Width ELSE @],
                    avail)

\* The loop of measureBox: acc holds totalWidth, totalHeight, maxWidth, maxHeight.
measureChildren(props, children, i, acc, avail) ==
    IF i > Len(children) THEN acc
    ELSE LET childSize == Measure(children[i], avail[1], avail[2])
             gap == IF i > 1 /\ props.Gap > 0 THEN props.Gap ELSE 0
         IN  IF IsPanic(childSize) THEN Panic
             ELSE IF props.Direction = "Row"
             THEN measureChildren(props, children, i + 1,
                    [acc EXCEPT !.totalWidth = @ + childSize.Width + gap,
                                !.maxHeight = IF childSize.Height > @
                                              THEN childSize.Height ELSE @],
                    avail)
             ELSE measureChildren(props, children, i + 1,
                    [acc EXCEPT !.totalHeight = @ + childSize.Height + gap,
                                !.maxWidth = IF childSize.Width > @
                                             THEN childSize.Width ELSE @],
                    avail)

\* Mutant: a box without children is measured like any other box.
measureBoxNoEarlyReturn(props, children, availableWidth, availableHeight) ==
    LET acc == measureChildren(props, children, 1,
                 [totalWidth |-> 0, totalHeight |-> 0, maxWidth |-> 0, maxHeight |-> 0],
                 <<availableWidth, availableHeight>>)
    IN  IF IsPanic(acc) THEN Panic
        ELSE
        LET width0 == IF props.Direction = "Row" THEN acc.totalWidth ELSE acc.maxWidth
            height0 == IF props.Direction = "Row" THEN acc.maxHeight ELSE acc.totalHeight
            width1 == width0 + spacingWidth(props.Padding) + spacingWidth(props.Margin)
                        + borderSize(props.Border)[1]
            height1 == height0 + spacingHeight(props.Padding) + spacingHeight(props.Margin)
                        + borderSize(props.Border)[2]
            resolvedWidth == resolveDimension(props.Width, availableWidth)
            resolvedHeight == resolveDimension(props.Height, availableHeight)
            width == IF resolvedWidth > 0 THEN resolvedWidth ELSE width1
            height == IF resolvedHeight > 0 THEN resolvedHeight ELSE height1
        IN  applyConstraints([Width |-> width, Height |-> height],
                             props.MinWidth, props.MinHeight,
                             props.MaxWidth, props.MaxHeight)

measureBox(props, children, availableWidth, availableHeight) ==
    IF Len(children) = 0 THEN [Width |-> 0, Height |-> 0]
    ELSE
    LET acc == measureChildren(props, children, 1,
                 [totalWidth |-> 0, totalHeight |-> 0, maxWidth |-> 0, maxHeight |-> 0],
                 <<availableWidth, availableHeight>>)
    IN  IF IsPanic(acc) THEN Panic
        ELSE
        LET width0 == IF props.Direction = "Row" THEN acc.totalWidth ELSE acc.maxWidth
            height0 == IF props.Direction = "Row" THEN acc.maxHeight ELSE acc.totalHeight
            width1 == width0 + spacingWidth(props.Padding) + spacingWidth(props.Margin)
                        + borderSize(props.Border)[1]
            height1 == height0 + spacingHeight(props.Padding) + spacingHeight(props.Margin)
                        + borderSize(props.Border)[2]
            resolvedWidth == resolveDimension(props.Width, availableWidth)
            resolvedHeight == resolveDimension(props.Height, availableHeight)
            width == IF resolvedWidth > 0 THEN resolvedWidth ELSE width1
            height == IF resolvedHeight > 0 THEN resolvedHeight ELSE height1
        IN  applyConstraints([Width |-> width, Height |-> height],
                             props.MinWidth, props.MinHeight,
                             props.MaxWidth, props.MaxHeight)

\* The loop of static.Measure: acc holds maxWidth and totalHeight.
staticItems(items, i, acc, avail) ==
    IF i > Len(items) THEN acc
    ELSE LET size == Measure(items[i], avail[1], avail[2])
         IN  IF IsPanic(size) THEN Panic
             ELSE staticItems(items, i + 1,
                    [Width |-> IF size.Width > acc.Width THEN size.Width ELSE acc.Width,
                     Height |-> acc.Height + size.Height],
                    avail)

\* Mutant: a Static whose key the App's manager has recorded measures as empty.
staticMeasureOnlyNew(s, availableWidth, availableHeight) ==
    IF s.props.Key \in managers["app"].staticKeys
    THEN [Width |-> 0, Height |-> 0]
    ELSE staticItems(itemsFunc(s), 1, [Width |-> 0, Height |-> 0],
                     <<availableWidth, availableHeight>>)

staticMeasure(s, availableWidth, availableHeight) ==
    staticItems(itemsFunc(s), 1, [Width |-> 0, Height |-> 0],
                <<availableWidth, availableHeight>>)

\* Mutant: a box with a flex-grow weight measures as the available space.
MeasureFlexGrows(c, availableWidth, availableHeight) ==
    CASE c.kind = "text" -> textMeasure(c, availableWidth, availableHeight)
      [] c.kind = "box" ->
            IF c.props.FlexGrow > 0
            THEN [Width |-> availableWidth, Height |-> availableHeight]
            ELSE measureBox(c.props, c.children, availableWidth, availableHeight)
      [] c.kind = "static" -> staticMeasure(c, availableWidth, availableHeight)
      [] c.kind = "func" -> Measure(c.f, availableWidth, availableHeight)

\* Component.Measure, dispatched on the concrete type.
Measure(c, availableWidth, availableHeight) ==
    CASE c.kind = "text" -> textMeasure(c, availableWidth, availableHeight)
      [] c.kind = "box" -> measureBox(c.props, c.children, availableWidth, availableHeight)
      [] c.kind = "static" -> staticMeasure(c, availableWidth, availableHeight)
      [] c.kind = "func" -> Measure(c.f, availableWidth, availableHeight)

RECURSIVE Children(_)
\* Component.Children, dispatched on the concrete type.
Children(c) ==
    CASE c.kind = "box" -> c.children
      [] c.kind = "func" -> Children(c.f)
      [] OTHER -> <<>>

\* ---------------------------------------------------------------- layout
IsBox(c) == c.kind = "box"

RECURSIVE measureAndLayout(_, _, _, _, _)
RECURSIVE layoutChildren(_, _, _, _, _, _)

\* Mutant: the gap between children is not added to the running position.
layoutChildrenNoGap(b, i, childTrees, current, cross, avail) ==
    IF i > Len(b.children) THEN [trees |-> childTrees]
    ELSE LET childTree ==
                 IF b.props.Direction = "Column"
                 THEN measureAndLayout(b.children[i], avail[1], avail[2], cross, current)
                 ELSE measureAndLayout(b.children[i], avail[1], avail[2], current, cross)
         IN  IF IsPanic(childTree) THEN Panic
             ELSE LET extent == IF b.props.Direction = "Column"
                                THEN childTree.Layout.Height
                                ELSE childTree.Layout.Width
                  IN  layoutChildren(b, i + 1, Append(childTrees, childTree),
                                     current + extent, cross, avail)

\* The Column and Row loops of measureAndLayout: current is the running
\* main-axis position, cross the fixed cross-axis origin.
layoutChildren(b, i, childTrees, current, cross, avail) ==
    IF i > Len(b.children) THEN [trees |-> childTrees]
    ELSE LET childTree ==
                 IF b.props.Direction = "Column"
                 THEN measureAndLayout(b.children[i], avail[1], avail[2], cross, current)
                 ELSE measureAndLayout(b.children[i], avail[1], avail[2], current, cross)
         IN  IF IsPanic(childTree) THEN Panic
             ELSE LET extent == IF b.props.Direction = "Column"
                                THEN childTree.Layout.Height
                                ELSE childTree.Layout.Width
                      gap == IF i < Len(b.children) /\ b.props.Gap > 0
                             THEN b.props.Gap ELSE 0
                  IN  layoutChildren(b, i + 1, Append(childTrees, childTree),
                                     current + extent + gap, cross, avail)

measureAndLayout(component, availableWidth, availableHeight, x, y) ==
    LET marginLeft == IF IsBox(component) THEN component.props.Margin.Left ELSE 0
        marginTop == IF IsBox(component) THEN component.props.Margin.Top ELSE 0
        adjustedX == x + marginLeft
        adjustedY == y + marginTop
        size == Measure(component, availableWidth, availableHeight)
    IN  IF IsPanic(size) THEN Panic
        ELSE
        LET layout == [X |-> adjustedX, Y |-> adjustedY,
                       Width |-> size.Width, Height |-> size.Height]
            children == Children(component)
            childTrees ==
                IF Len(children) > 0 /\ IsBox(component)
                THEN LET originX == adjustedX + component.props.Padding.Left
                                      + GoDiv(borderSize(component.props.Border)[1], 2)
                         originY == adjustedY + component.props.Padding.Top
                                      + GoDiv(borderSize(component.props.Border)[2], 2)
                     IN  IF component.props.Direction = "Column"
                         THEN layoutChildren(component, 1, <<>>, originY, originX,
                                             <<availableWidth, availableHeight>>)
                         ELSE layoutChildren(component, 1, <<>>, originX, originY,
                                             <<availableWidth, availableHeight>>)
                ELSE [trees |-> <<>>]
        IN  IF IsPanic(childTrees) THEN Panic
            ELSE [Component |-> component, Layout |-> layout,
                  Children |-> childTrees.trees]

\* Mutant: the layout is always computed for the size New gives the engine.
CalculateLayoutDefaultSize(c) == measureAndLayout(c, 80, 24, 0, 0)

CalculateLayout(c) == measureAndLayout(c, terminalWidth, terminalHeight, 0, 0)

\* ---------------------------------------------------------------- static
NewStaticManager == [staticBuffer |-> <<>>, staticKeys |-> {}]

\* Mutant: the key is not looked up, every call appends.
AppendStaticAgain(sm, key, content) ==
    [sm |-> [staticBuffer |-> sm.staticBuffer \o content,
             staticKeys |-> sm.staticKeys \cup {key}],
     count |-> Len(content)]

\* StaticManager.AppendStatic: the manager after the call and the count returned.
AppendStatic(sm, key, content) ==
    IF key \in sm.staticKeys
    THEN [sm |-> sm, count |-> 0]
    ELSE [sm |-> [staticBuffer |-> sm.staticBuffer \o content,
                  staticKeys |-> sm.staticKeys \cup {key}],
          count |-> Len(content)]

\* Mutant: the buffer is never written to the frame.
RenderStaticNothing(sm) == <<>>

RenderStatic(sm) == Join(sm.staticBuffer, NewLine)

\* ---------------------------------------------------------------- render
\* The result of a Render: the string returned and the managers afterwards.
RECURSIVE Render(_, _, _, _)
RECURSIVE renderAll(_, _, _, _, _, _)

\* Renders items in order with one layout; parts collects the strings.
renderAll(items, i, parts, layout, cur, mgrs) ==
    IF i > Len(items) THEN [parts |-> parts, mgrs |-> mgrs]
    ELSE LET r == Render(items[i], layout, cur, mgrs)
         IN  renderAll(items, i + 1, Append(parts, r.out), layout, cur, r.mgrs)

\* text.Render: the content styled at the layout's width, one atom.
textRender(t, layout) == <<[text |-> t.content, width |-> layout.Width]>>

staticRender(s, layout, cur, mgrs) ==
    LET rendered == renderAll(itemsFunc(s), 1, <<>>, layout, cur, mgrs)
        lines == rendered.parts
    IN  IF cur # Nil
        THEN LET a == AppendStatic(rendered.mgrs[cur.id], s.props.Key, lines)
                 after == [rendered.mgrs EXCEPT ![cur.id] = a.sm]
             IN  IF a.count = 0 THEN [out |-> <<>>, mgrs |-> after]
                 ELSE IF a.count < Len(lines)
                 THEN [out |-> Join(SubSeq(lines, Len(lines) - a.count + 1, Len(lines)),
                                    NewLine),
                       mgrs |-> after]
                 ELSE [out |-> Join(lines, NewLine), mgrs |-> after]
        ELSE [out |-> Join(lines, NewLine), mgrs |-> rendered.mgrs]

boxRender(b, layout, cur, mgrs) ==
    IF Len(b.children) = 0 THEN [out |-> <<>>, mgrs |-> mgrs]
    ELSE LET rendered == renderAll(b.children, 1, <<>>, layout, cur, mgrs)
             content == IF b.props.Direction = "Row"
                        THEN Join(rendered.parts, <<>>)
                        ELSE Join(rendered.parts, NewLine)
         IN  [out |-> IF b.props.Border # "BorderNone"
                      THEN <<[border |-> b.props.Border, content |-> content]>>
                      ELSE content,
              mgrs |-> rendered.mgrs]

Render(c, layout, cur, mgrs) ==
    CASE c.kind = "text" -> [out |-> textRender(c, layout), mgrs |-> mgrs]
      [] c.kind = "box" -> boxRender(c, layout, cur, mgrs)
      [] c.kind = "static" -> staticRender(c, layout, cur, mgrs)
      [] c.kind = "func" -> Render(c.f, layout, cur, mgrs)

RECURSIVE renderTree(_, _, _)
RECURSIVE renderTrees(_, _, _, _, _)

\* The loop of renderTree over tree.Children.
renderTrees(trees, i, rendered, cur, mgrs) ==
    IF i > Len(trees) THEN [out |-> rendered, mgrs |-> mgrs]
    ELSE LET r == renderTree(trees[i], cur, mgrs)
         IN  renderTrees(trees, i + 1, rendered \o r.out, cur, r.mgrs)

renderTree(t, cur, mgrs) ==
    LET r == Render(t.Component, t.Layout, cur, mgrs)
    IN  renderTrees(t.Children, 1, r.out, cur, r.mgrs)

\* ---------------------------------------------------------------- inputs
Wide == <<"a", "b", "c", "d", "e">>

TextSet ==
    {Text(<<"a", "b">>, "WrapNone"), Text(Wide, "WrapWord"),
     Text(<<"a", "U2", "c">>, "WrapTruncate"), Text(<<>>, "WrapNone")}

ChildBoxes ==
    {Box([BoxProps EXCEPT !.Margin = Spacing(1, 0, 0, 2), !.Border = "BorderSingle"],
         <<Text(<<"a", "b">>, "WrapNone")>>),
     Spacer(2),
     ComponentFunc(HStack(<<Text(<<"a">>, "WrapNone"), Text(<<"b">>, "WrapNone")>>))}

ChildSet == TextSet \cup ChildBoxes

ChildLists == UNION {[1..n -> ChildSet] : n \in 0..MaxChildren}

RootProps ==
    {[BoxProps EXCEPT !.Direction = d, !.Gap = g, !.Border = b,
                      !.Padding = p, !.Margin = m] :
        d \in {"Column", "Row"}, g \in {0, 2},
        b \in {"BorderNone", "BorderRounded"},
        p \in {SpacingAll(0), Spacing(1, 0, 2, 1)},
        m \in {SpacingAll(0), Spacing(2, 1, 0, 1)}}

LayoutRoots ==
    {Box(props, children) : props \in RootProps, children \in ChildLists}
    \cup TextSet
    \cup {ComponentFunc(VStack(children)) : children \in [1..1 -> ChildSet]}

\* The i-th log entry; the entries differ, as the numbered ones of the example.
LogLine(i) == [j \in 1..i |-> IF j = 1 THEN "a" ELSE "b"]

AppRoots ==
    {VStack(<<Text(<<"a", "b">>, "WrapNone"), Static("logs"), Text(Wide, "WrapWord")>>),
     Static("logs"),
     HStack(<<Static("logs"), Static("k2")>>)}

Keys == {"logs", "k2"}

\* A rendered line of the given text.
Line(content) == <<[text |-> content, width |-> 80]>>

Contents == {<<>>, <<Line(<<"d">>), Line(<<"e">>)>>}

ManagerIds == {"app", "other"}

ManagerRef(id) == [kind |-> "sm", id |-> id]

ManagerRefs == {Nil} \cup {ManagerRef(id) : id \in ManagerIds}

Dims == {<<80, 24>>, <<0, 0>>, <<3, 2>>}

\* No View() call is in progress.
NoViews == [id \in ManagerIds |-> [pc |-> "idle", observed |-> {}, appended |-> {}]]

\* ---------------------------------------------------------------- actions
NoMsg == [type |-> "none"]

\* New(rootFunc, opts...): the App before Run; withUpdate tells whether the
\* option WithUpdate set App.updateFunc.
NewApp(withUpdate) ==
    [updateFunc |-> withUpdate, ctx |-> "none", status |-> "new",
     pending |-> <<>>, lastWindowSize |-> NoMsg]

\* New(rootFunc): an 80x24 engine, a fresh manager, no current manager.
InitState(roots) ==
    /\ root \in roots
    /\ logs = <<>>
    /\ terminalWidth = 80
    /\ terminalHeight = 24
    /\ managers = [id \in ManagerIds |-> NewStaticManager]
    /\ currentStaticManager = Nil
    /\ tree = NoTree
    /\ last = NoCall
    /\ recorded = [id \in ManagerIds |-> {}]
    /\ views = NoViews
    /\ ret = NoCall
    /\ panicked = FALSE
    /\ run = NewApp(FALSE)
    /\ args = NoCall

Init == InitState(LayoutRoots)

InitApp == InitState(AppRoots)

Inputs == [root |-> root, logs |-> logs,
           width |-> terminalWidth, height |-> terminalHeight]

SameInputs == last # NoCall /\ last.inputs = Inputs

Recorded == [inputs |-> Inputs, n |-> IF SameInputs THEN 2 ELSE 1]

RECURSIVE StaticKeysIn(_)
\* The keys of the Static components of a component tree.
StaticKeysIn(c) ==
    CASE c.kind = "static" -> {c.props.Key}
      [] c.kind = "func" -> StaticKeysIn(c.f)
      [] c.kind = "box" -> UNION {StaticKeysIn(c.children[i]) : i \in 1..Len(c.children)}
      [] OTHER -> {}

\* Mutant: the layout pass renders the tree into the App's manager.
CalculateLayoutCallRendering ==
    /\ ~panicked
    /\ LET t == CalculateLayout(root)
       IN  IF IsPanic(t)
           THEN /\ panicked' = TRUE
                /\ UNCHANGED <<tree, last, managers>>
           ELSE /\ tree' = t
                /\ last' = Recorded
                /\ managers' = renderTree(t, ManagerRef("app"), managers).mgrs
                /\ UNCHANGED panicked
    /\ ret' = [op |-> "CalculateLayout"]
    /\ UNCHANGED <<args, views, run, root, logs, terminalWidth, terminalHeight,
                   currentStaticManager, recorded>>

\* engine.CalculateLayout(root)
CalculateLayoutCall ==
    /\ ~panicked
    /\ LET t == CalculateLayout(root)
       IN  IF IsPanic(t)
           THEN /\ panicked' = TRUE
                /\ UNCHANGED <<tree, last>>
           ELSE /\ tree' = t
                /\ last' = Recorded
                /\ UNCHANGED panicked
    /\ ret' = [op |-> "CalculateLayout"]
    /\ UNCHANGED <<args, views, run, root, logs, terminalWidth, terminalHeight, managers,
                   currentStaticManager, recorded>>

\* model.Update on a WindowSizeMsg: a new engine with the message's size.
UpdateWindowSize(width, height) ==
    /\ ~panicked
    /\ terminalWidth' = width
    /\ terminalHeight' = height
    /\ ret' = [op |-> "Update"]
    /\ UNCHANGED <<args, views, run, root, logs, managers, currentStaticManager, tree, last,
                   recorded, panicked>>

\* The user's update function of the streaming example appends a log line.
AddLog ==
    /\ ~panicked
    /\ Len(logs) < MaxLogs
    /\ logs' = Append(logs, LogLine(Len(logs) + 1))
    /\ ret' = [op |-> "Update"]
    /\ UNCHANGED <<args, views, run, root, terminalWidth, terminalHeight, managers,
                   currentStaticManager, tree, last, recorded, panicked>>

\* model.View of the App that owns manager "app".
View ==
    /\ ~panicked
    /\ LET cur == ManagerRef("app")
           t == CalculateLayout(root)
       IN  IF IsPanic(t)
           THEN /\ panicked' = TRUE
                /\ ret' = [op |-> "View"]
                /\ UNCHANGED <<tree, last, managers, recorded>>
           ELSE LET staticContent == RenderStatic(managers["app"])
                    r == renderTree(t, cur, managers)
                    dynamicContent == r.out
                IN  /\ tree' = t
                    /\ last' = Recorded
                    /\ managers' = r.mgrs
                    /\ recorded' = [recorded EXCEPT !["app"] = @ \cup StaticKeysIn(root)]
                    /\ ret' = [op |-> "View",
                               static |-> staticContent,
                               dynamic |-> dynamicContent,
                               out |-> IF staticContent = <<>> THEN dynamicContent
                                       ELSE IF dynamicContent = <<>> THEN staticContent
                                       ELSE staticContent \o NewLine \o dynamicContent]
                    /\ UNCHANGED panicked
    /\ currentStaticManager' = Nil
    /\ UNCHANGED <<args, views, run, root, logs, terminalWidth, terminalHeight>>

SetStaticManagerCall(sm) ==
    /\ ~panicked
    /\ currentStaticManager' = sm
    /\ ret' = [op |-> "SetStaticManager"]
    /\ UNCHANGED <<args, views, run, root, logs, terminalWidth, terminalHeight, managers,
                   tree, last, recorded, panicked>>

\* sm.AppendStatic(key, content) on manager id
AppendStaticCall(id, key, content) ==
    /\ ~panicked
    /\ Len(managers[id].staticBuffer) + Len(content) <= MaxBuffer
    /\ LET a == AppendStatic(managers[id], key, content)
       IN  /\ managers' = [managers EXCEPT ![id] = a.sm]
           /\ ret' = [op |-> "AppendStatic", id |-> id, key |-> key,
                      content |-> content, count |-> a.count]
    /\ recorded' = [recorded EXCEPT ![id] = @ \cup {key}]
    /\ UNCHANGED <<args, views, run, root, logs, terminalWidth, terminalHeight,
                   currentStaticManager, tree, last, panicked>>

\* sm.Clear() on manager id
ClearCall(id) ==
    /\ ~panicked
    /\ managers' = [managers EXCEPT ![id] = NewStaticManager]
    /\ ret' = [op |-> "Clear"]
    /\ recorded' = [recorded EXCEPT ![id] = {}]
    /\ UNCHANGED <<args, views, run, root, logs, terminalWidth, terminalHeight,
                   currentStaticManager, tree, last, panicked>>

\* Static(StaticProps{Key: key}, itemsFunc).Render(layout), called directly.
StaticRenderCall(key) ==
    /\ ~panicked
    /\ LET layout == [X |-> 0, Y |-> 0, Width |-> 80, Height |-> 24]
           r == staticRender(Static(key), layout, currentStaticManager, managers)
       IN  /\ managers' = r.mgrs
           /\ ret' = [op |-> "Render", key |-> key, out |-> r.out]
    /\ recorded' = IF currentStaticManager = Nil THEN recorded
                   ELSE [recorded EXCEPT ![currentStaticManager.id] = @ \cup {key}]
    /\ UNCHANGED <<args, views, run, root, logs, terminalWidth, terminalHeight,
                   currentStaticManager, tree, last, panicked>>

Next ==
    \/ CalculateLayoutCall
    \/ \E d \in Dims : UpdateWindowSize(d[1], d[2])

Spec == Init /\ [][Next]_vars

NextApp ==
    \/ CalculateLayoutCall
    \/ \E d \in Dims : UpdateWindowSize(d[1], d[2])
    \/ AddLog
    \/ View
    \/ \E sm \in ManagerRefs : SetStaticManagerCall(sm)

SpecApp == InitApp /\ [][NextApp]_vars

InitStatic == InitState({Static("logs")})

NextStatic ==
    \/ AddLog
    \/ \E sm \in ManagerRefs : SetStaticManagerCall(sm)
    \/ \E id \in ManagerIds, key \in Keys, content \in Contents :
          AppendStaticCall(id, key, content)
    \/ \E id \in ManagerIds : ClearCall(id)
    \/ \E key \in Keys : StaticRenderCall(key)

SpecStatic == InitStatic /\ [][NextStatic]_vars

\* ---------------------------------------------------------------- helpers of the properties
RECURSIVE Nodes(_)
\* Every node of a LayoutTree.
Nodes(t) == {t} \cup UNION {Nodes(t.Children[i]) : i \in 1..Len(t.Children)}

RECURSIVE BoxesAndTexts(_)
\* The component tree is built from Box and Text components only.
BoxesAndTexts(c) ==
    CASE c.kind = "text" -> TRUE
      [] c.kind = "box" -> \A i \in 1..Len(c.children) : BoxesAndTexts(c.children[i])
      [] OTHER -> FALSE

RECURSIVE Mirrors(_, _)
\* The LayoutTree t has one node per component reachable from c, in order.
Mirrors(t, c) ==
    /\ t.Component = c
    /\ Len(t.Children) = Len(Children(c))
    /\ \A i \in 1..Len(t.Children) : Mirrors(t.Children[i], Children(c)[i])

RECURSIVE SumOver(_, _)
SumOver(f, n) == IF n = 0 THEN 0 ELSE f[n] + SumOver(f, n - 1)

RECURSIVE MaxOver(_, _)
MaxOver(f, n) ==
    IF n = 1 THEN f[1]
    ELSE IF f[n] > MaxOver(f, n - 1) THEN f[n] ELSE MaxOver(f, n - 1)

BoxNodes(t) == {n \in Nodes(t) : IsBox(n.Component) /\ Len(n.Children) >= 1}

BorderCells(props) == IF props.Border = "BorderNone" THEN 0 ELSE 2

\* padding.left+right + margin.left+right + border, and the same vertically
spacingWidthOf(props) ==
    props.Padding.Left + props.Padding.Right + props.Margin.Left + props.Margin.Right
      + BorderCells(props)

spacingHeightOf(props) ==
    props.Padding.Top + props.Padding.Bottom + props.Margin.Top + props.Margin.Bottom
      + BorderCells(props)

MarginLeftOf(c) == IF IsBox(c) THEN c.props.Margin.Left ELSE 0

MarginTopOf(c) == IF IsBox(c) THEN c.props.Margin.Top ELSE 0

IsSpacer(c) ==
    /\ IsBox(c)
    /\ c.children = <<>>
    /\ c.props.Width.t = "fixed"
    /\ c.props.Width.value > 0
    /\ c.props.Height = c.props.Width

\* ---------------------------------------------------------------- C1
\* C1: CalculateLayout is total: for every tree of Box and Text components
\* and every terminal size >= 0 it returns a LayoutTree and never panics.
C1_CalculateLayoutTotal ==
    (BoxesAndTexts(root) /\ terminalWidth >= 0 /\ terminalHeight >= 0)
        => /\ ~panicked
           /\ ret.op = "CalculateLayout" => (tree # NoTree /\ last.inputs = Inputs)

\* ---------------------------------------------------------------- C2
\* C2: the LayoutTree mirrors the component tree: one node per component
\* reachable through Children(), the children in the same number and order,
\* whatever the concrete component type.
C2_LayoutTreeMirrorsComponents ==
    tree # NoTree => Mirrors(tree, root)

\* ---------------------------------------------------------------- C3
\* C3: a Column box with n >= 1 children, gap >= 0, non-negative child sizes,
\* no explicit Width/Height and no min/max measures
\* Height = sum(child heights) + gap*(n-1) + padding + margin + border and
\* Width = max(child widths) + padding + margin + border; a Row box likewise
\* with width and height exchanged.
C3_BoxMeasureLaw ==
    tree # NoTree =>
        \A n \in BoxNodes(tree) :
            LET props == n.Component.props
                k == Len(n.Children)
                widths == [i \in 1..k |-> n.Children[i].Layout.Width]
                heights == [i \in 1..k |-> n.Children[i].Layout.Height]
                extraW == spacingWidthOf(props)
                extraH == spacingHeightOf(props)
            IN  (/\ props.Gap >= 0
                 /\ props.Width.t \in {"unset", "auto"}
                 /\ props.Height.t \in {"unset", "auto"}
                 /\ props.MinWidth = 0 /\ props.MaxWidth = 0
                 /\ props.MinHeight = 0 /\ props.MaxHeight = 0
                 /\ \A i \in 1..k : widths[i] >= 0 /\ heights[i] >= 0)
                => IF props.Direction = "Column"
                   THEN /\ n.Layout.Height = SumOver(heights, k) + props.Gap * (k - 1) + extraH
                        /\ n.Layout.Width = MaxOver(widths, k) + extraW
                   ELSE /\ n.Layout.Width = SumOver(widths, k) + props.Gap * (k - 1) + extraW
                        /\ n.Layout.Height = MaxOver(heights, k) + extraH

\* A Column box with two children, a gap, a border, padding and margin was laid out.
C3_Witness ==
    /\ tree # NoTree
    /\ \E n \in BoxNodes(tree) :
          /\ n.Component.props.Direction = "Column"
          /\ Len(n.Children) >= 2
          /\ n.Component.props.Gap > 0
          /\ n.Component.props.Border # "BorderNone"
          /\ n.Component.props.Padding.Bottom > 0
          /\ n.Component.props.Margin.Top > 0
          /\ n.Children[1].Layout.Height > 0
          /\ n.Children[1].Layout.Width # n.Children[2].Layout.Width

\* ---------------------------------------------------------------- C4
\* C4 (as claimed): in a Row box with gap g every next child's X is the
\* previous child's X + Width + g, in a Column box likewise for Y and Height,
\* for every kind of child, child boxes with margins included.
C4_ConsecutiveChildrenAbut ==
    tree # NoTree =>
        \A n \in BoxNodes(tree) : \A i \in 1..(Len(n.Children) - 1) :
            LET a == n.Children[i].Layout
                b == n.Children[i + 1].Layout
                g == n.Component.props.Gap
            IN  g >= 0 =>
                IF n.Component.props.Direction = "Row"
                THEN b.X = a.X + a.Width + g
                ELSE b.Y = a.Y + a.Height + g

\* C4 (amended): the origins abut, a child box being placed at its origin
\* plus its own left (top) margin: next.X - margin.left(next) =
\* previous.X - margin.left(previous) + previous.Width + g, and likewise for
\* Y, Height and margin.top in a Column box (the margin of a child that is
\* not a box counts as 0).
C4_ConsecutiveOriginsAbut ==
    tree # NoTree =>
        \A n \in BoxNodes(tree) : \A i \in 1..(Len(n.Children) - 1) :
            LET a == n.Children[i]
                b == n.Children[i + 1]
                g == n.Component.props.Gap
            IN  g >= 0 =>
                IF n.Component.props.Direction = "Row"
                THEN b.Layout.X - MarginLeftOf(b.Component)
                       = a.Layout.X - MarginLeftOf(a.Component) + a.Layout.Width + g
                ELSE b.Layout.Y - MarginTopOf(b.Component)
                       = a.Layout.Y - MarginTopOf(a.Component) + a.Layout.Height + g

\* A Row box with a gap was laid out whose first child is a box with a left
\* margin and whose second child has none.
C4_Witness ==
    /\ tree # NoTree
    /\ \E n \in BoxNodes(tree) :
          /\ n.Component.props.Direction = "Row"
          /\ n.Component.props.Gap > 0
          /\ Len(n.Children) >= 2
          /\ MarginLeftOf(n.Children[1].Component) > 0
          /\ MarginLeftOf(n.Children[2].Component) = 0
          /\ n.Children[1].Layout.Width > 0

\* ---------------------------------------------------------------- C5
\* C5: a box is placed at the origin it was given plus (margin.left,
\* margin.top); the origin handed to its first child is (box.X + padding.left
\* + b, box.Y + padding.top + b), b = 1 with a border and 0 without; the
\* box's margin is applied once, not again for the children.
C5_MarginOnceThenPaddingAndBorder ==
    tree # NoTree =>
        /\ tree.Layout.X = MarginLeftOf(root)
        /\ tree.Layout.Y = MarginTopOf(root)
        /\ \A n \in BoxNodes(tree) :
              LET props == n.Component.props
                  b == IF props.Border = "BorderNone" THEN 0 ELSE 1
                  originX == n.Layout.X + props.Padding.Left + b
                  originY == n.Layout.Y + props.Padding.Top + b
                  first == n.Children[1]
              IN  /\ first.Layout.X = originX + MarginLeftOf(first.Component)
                  /\ first.Layout.Y = originY + MarginTopOf(first.Component)

\* A box with margin, padding and a border was laid out, its first child a
\* box with a margin of its own.
C5_Witness ==
    /\ tree # NoTree
    /\ IsBox(root)
    /\ root.props.Margin.Left > 0
    /\ root.props.Padding.Left > 0
    /\ root.props.Border # "BorderNone"
    /\ Len(tree.Children) >= 1
    /\ MarginLeftOf(tree.Children[1].Component) > 0
    /\ Len(tree.Children[1].Children) >= 1

\* ---------------------------------------------------------------- C6
\* C6: Spacer(n), n > 0, is a fixed-size spacer: as a child of a Row (Column)
\* box it gets main-axis extent n, so the sibling after it starts n cells
\* plus the gap after the Spacer's own start.
C6_SpacerHasFixedExtent ==
    tree # NoTree =>
        \A n \in BoxNodes(tree) : \A i \in 1..Len(n.Children) :
            LET c == n.Children[i]
                size == c.Component.props.Width.value
                g == IF n.Component.props.Gap > 0 THEN n.Component.props.Gap ELSE 0
            IN  IsSpacer(c.Component) =>
                IF n.Component.props.Direction = "Row"
                THEN /\ c.Layout.Width = size
                     /\ i < Len(n.Children) =>
                          n.Children[i + 1].Layout.X
                              - MarginLeftOf(n.Children[i + 1].Component)
                            = c.Layout.X + size + g
                ELSE /\ c.Layout.Height = size
                     /\ i < Len(n.Children) =>
                          n.Children[i + 1].Layout.Y
                              - MarginTopOf(n.Children[i + 1].Component)
                            = c.Layout.Y + size + g

\* ---------------------------------------------------------------- C7
\* C7: the content of a Static zone accumulates across renders: when the
\* Static of key "logs" yielded items on an earlier frame and yields these
\* and more on a later frame of the same App, the accumulated static output
\* after the later frame contains every item.
C7_StaticAccumulates ==
    (/\ ret.op = "View" /\ ~panicked
     /\ "logs" \in StaticKeysIn(root)
     /\ managers["app"].staticBuffer # <<>>)
    => \A i \in 1..Len(logs) :
          \E j \in 1..Len(managers["app"].staticBuffer) :
              managers["app"].staticBuffer[j][1].text = logs[i]

\* ---------------------------------------------------------------- C8
\* The string a Static of the current logs returns when all its items are new.
StaticContent(width) ==
    Join([i \in 1..Len(logs) |-> <<[text |-> logs[i], width |-> width]>>], NewLine)

C10_LayoutHasNoSideEffects ==
    [][ret'.op = "CalculateLayout"
          => UNCHANGED <<args, views, run, root, logs, terminalWidth, terminalHeight,
                         currentStaticManager, managers>>]_vars

\* A layout pass ran over a tree with a Static while a manager was current
\* and the App's manager had not yet recorded the Static's lines.
C10_Witness ==
    /\ ret.op = "CalculateLayout"
    /\ ~panicked
    /\ tree # NoTree
    /\ last.inputs = Inputs
    /\ StaticKeysIn(root) # {}
    /\ Len(logs) > 0
    /\ currentStaticManager # Nil
    /\ managers["app"].staticKeys = {}

\* ---------------------------------------------------------------- measureText
RECURSIVE SplitFrom(_, _, _, _)
\* strings.Split(content, "\n"): cur is the line being read, out the lines read.
SplitFrom(content, i, cur, out) ==
    IF i > Len(content) THEN Append(out, cur)
    ELSE IF content[i] = "NL"
    THEN SplitFrom(content, i + 1, <<>>, Append(out, cur))
    ELSE SplitFrom(content, i + 1, Append(cur, content[i]), out)

\* utf8.RuneCountInString: every atom of a content is one rune.
RuneCountInString(line) == Len(line)

RECURSIVE totalRunesOf(_, _)
\* The second loop of measureText.
totalRunesOf(lines, i) ==
    IF i > Len(lines) THEN 0
    ELSE RuneCountInString(lines[i]) + totalRunesOf(lines, i + 1)

RECURSIVE widestOf(_, _, _)
\* The first loop of measureText.
widestOf(lines, i, width) ==
    IF i > Len(lines) THEN width
    ELSE widestOf(lines, i + 1,
                  IF RuneCountInString(lines[i]) > width
                  THEN RuneCountInString(lines[i]) ELSE width)

measureText(content, wrap, availableWidth) ==
    IF content = <<>> THEN [Width |-> 0, Height |-> 0]
    ELSE
    LET lines == SplitFrom(content, 1, <<>>, <<>>)
        height == Len(lines)
        width == widestOf(lines, 1, 0)
    IN  IF wrap = "WrapNone" THEN [Width |-> width, Height |-> height]
        ELSE IF wrap = "WrapTruncate" /\ width > availableWidth
        THEN [Width |-> availableWidth, Height |-> height]
        ELSE IF wrap \in {"WrapWord", "WrapChar"}
                /\ width > availableWidth /\ availableWidth > 0
        THEN [Width |-> availableWidth,
              Height |-> GoDiv(totalRunesOf(lines, 1) + availableWidth - 1,
                               availableWidth)]
        ELSE [Width |-> width, Height |-> height]

\* ---------------------------------------------------------------- inputs of the measure calls
WrapModes == {"WrapNone", "WrapWord", "WrapChar", "WrapTruncate"}

TextContents ==
    {<<>>, <<"a", "b">>, Wide, <<"U2", "c">>, <<"a", "NL", "b", "c">>}

TextWidths == {-1, 0, 2, 3, 80}

OneByOne == <<Text(<<"a">>, "WrapNone"), Text(<<"b">>, "WrapNone")>>

PercentChild ==
    Box([BoxProps EXCEPT !.Width = DimensionPercent(50),
                         !.Height = DimensionPercent(50)],
        <<Text(<<"a">>, "WrapNone")>>)

MeasureChildLists ==
    {<<>>, OneByOne, <<Text(<<"a", "b", "c">>, "WrapNone")>>, <<PercentChild>>}

SpacingProps ==
    {[BoxProps EXCEPT !.Direction = d, !.Gap = g, !.Padding = p,
                      !.Margin = m, !.Border = b] :
        d \in {"Column", "Row"}, g \in {0, 2},
        p \in {SpacingAll(0), SpacingAll(1)},
        m \in {SpacingAll(0), SpacingAll(1)},
        b \in {"BorderNone", "BorderSingle"}}

DimensionProps ==
    {[BoxProps EXCEPT !.Direction = d, !.Padding = SpacingAll(1),
                      !.Width = w, !.Height = h] :
        d \in {"Column", "Row"},
        w \in {DimensionUnset, DimensionAuto, DimensionFixed(5), DimensionFixed(0),
               DimensionFixed(-2), DimensionPercent(50), DimensionPercent(0)},
        h \in {DimensionUnset, DimensionFixed(4), DimensionFixed(-1),
               DimensionPercent(50)}}

ConstraintProps ==
    {[BoxProps EXCEPT !.MinWidth = minW, !.MaxWidth = maxW,
                      !.MinHeight = minH, !.MaxHeight = maxH,
                      !.Padding = p, !.Width = w] :
        minW \in {0, 3, 6}, maxW \in {0, 2, 4},
        minH \in {0, 3}, maxH \in {0, 2},
        p \in {SpacingAll(0), SpacingAll(1), SpacingAll(-1)},
        w \in {DimensionUnset, DimensionFixed(5)}}

MeasureProps == SpacingProps \cup DimensionProps \cup ConstraintProps

Available == {<<80, 24>>, <<10, 4>>, <<0, 0>>, <<-4, -2>>}

Extents == {-1, 0, 2, 5}
Minimums == {-2, 0, 3}
Maximums == {-2, 0, 2, 4}

Dimensions ==
    {DimensionUnset, DimensionAuto, DimensionFixed(-3), DimensionFixed(0),
     DimensionFixed(5)}
    \cup {DimensionPercent(p) : p \in {0, 33, 50, 100, 150}}

Availables == {-7, -1, 0, 1, 3, 80, 200}

\* ---------------------------------------------------------------- the measure calls
MeasureArgs ==
    [op : {"Measure"}, props : MeasureProps, children : MeasureChildLists,
     available : Available]

ApplyConstraintsArgs ==
    [op : {"applyConstraints"}, size : [Width : Extents, Height : Extents],
     minWidth : Minimums, minHeight : Minimums,
     maxWidth : Maximums, maxHeight : Maximums]

ResolveDimensionArgs ==
    [op : {"resolveDimension"}, dim : Dimensions, available : Availables]

TextMeasureArgs ==
    [op : {"text.Measure"}, content : TextContents, wrap : WrapModes,
     availableWidth : TextWidths]

\* Box(props, children...).Measure(availableWidth, availableHeight)
MeasureCall ==
    /\ ~panicked
    /\ args.op = "Measure"
    /\ LET size == Measure(Box(args.props, args.children),
                           args.available[1], args.available[2])
       IN  /\ ret' = [op |-> "Measure", size |-> size]
           /\ panicked' = IsPanic(size)
    /\ UNCHANGED <<args, views, run, root, logs, terminalWidth, terminalHeight, managers,
                   currentStaticManager, tree, last, recorded>>

ApplyConstraintsCall ==
    /\ ~panicked
    /\ args.op = "applyConstraints"
    /\ ret' = [op |-> "applyConstraints",
               result |-> applyConstraints(args.size, args.minWidth, args.minHeight,
                                           args.maxWidth, args.maxHeight)]
    /\ UNCHANGED <<args, views, run, root, logs, terminalWidth, terminalHeight, managers,
                   currentStaticManager, tree, last, recorded, panicked>>

ResolveDimensionCall ==
    /\ ~panicked
    /\ args.op = "resolveDimension"
    /\ ret' = [op |-> "resolveDimension",
               result |-> resolveDimension(args.dim, args.available)]
    /\ UNCHANGED <<args, views, run, root, logs, terminalWidth, terminalHeight, managers,
                   currentStaticManager, tree, last, recorded, panicked>>

\* Text(content, TextProps{Wrap: wrap}).Measure(availableWidth, 24), with what
\* measureText gives for the same content, wrap mode and width.
TextMeasureCall ==
    /\ ~panicked
    /\ args.op = "text.Measure"
    /\ LET size == Measure(Text(args.content, args.wrap), args.availableWidth, 24)
       IN  /\ ret' = [op |-> "text.Measure", size |-> size,
                      measureText |-> measureText(args.content, args.wrap,
                                                  args.availableWidth)]
           /\ panicked' = IsPanic(size)
    /\ UNCHANGED <<args, views, run, root, logs, terminalWidth, terminalHeight, managers,
                   currentStaticManager, tree, last, recorded>>

\* The arguments of one call are drawn; the App is as New leaves it.
InitMeasure ==
    /\ args \in MeasureArgs \cup ApplyConstraintsArgs
                \cup ResolveDimensionArgs \cup TextMeasureArgs
    /\ root = Text(<<"a">>, "WrapNone")
    /\ logs = <<>>
    /\ terminalWidth = 80
    /\ terminalHeight = 24
    /\ managers = [id \in ManagerIds |-> NewStaticManager]
    /\ currentStaticManager = Nil
    /\ tree = NoTree
    /\ last = NoCall
    /\ recorded = [id \in ManagerIds |-> {}]
    /\ views = NoViews
    /\ ret = NoCall
    /\ panicked = FALSE
    /\ run = NewApp(FALSE)

NextMeasure ==
    \/ MeasureCall
    \/ ApplyConstraintsCall
    \/ ResolveDimensionCall
    \/ TextMeasureCall

SpecMeasure == InitMeasure /\ [][NextMeasure]_vars

\* The last call of a measure function has returned.
Returned(op) == args.op = op /\ ret.op = op /\ ~panicked

\* ---------------------------------------------------------------- claims C11..C20
\* The box of the scenario: Column, Gap 2, Padding 1 and Margin 1 on all
\* sides, Single border, two children of 1x1.
IsScenario ==
    /\ args.props = [BoxProps EXCEPT !.Direction = "Column", !.Gap = 2,
                                     !.Padding = SpacingAll(1),
                                     !.Margin = SpacingAll(1),
                                     !.Border = "BorderSingle"]
    /\ args.children = OneByOne

\* C11 as claimed: the Column box of the scenario measures width 8 and
\* height 10.
C11_ScenarioMeasures8x10 ==
    (Returned("Measure") /\ IsScenario)
        => ret.size = [Width |-> 8, Height |-> 10]

\* C11 amended: the Column box of the scenario measures width 7 (the widest
\* child 1, padding 2, margin 2, border 2) and height 10 (the children 2,
\* one gap 2, padding 2, margin 2, border 2).
C11_ScenarioMeasures7x10 ==
    (Returned("Measure") /\ IsScenario)
        => ret.size = [Width |-> 7, Height |-> 10]

C11_Witness == Returned("Measure") /\ IsScenario /\ ret.size.Height = 10

\* ---------------------------------------------------------------- C12
\* C12: a box with zero children measures Size{0, 0} for every combination
\* of padding, margin, border, gap, explicit dimensions and min/max.
C12_EmptyBoxMeasuresZero ==
    (Returned("Measure") /\ args.children = <<>>)
        => ret.size = [Width |-> 0, Height |-> 0]

\* An empty box with padding, a fixed width and minimum sizes was measured.
C12_Witness ==
    /\ Returned("Measure")
    /\ args.children = <<>>
    /\ args.props.Padding = SpacingAll(1)
    /\ args.props.Width = DimensionFixed(5)
    /\ args.props.MinWidth = 3
    /\ args.props.MinHeight = 3

\* ---------------------------------------------------------------- C13
NoMinMax(props) ==
    /\ props.MinWidth = 0 /\ props.MaxWidth = 0
    /\ props.MinHeight = 0 /\ props.MaxHeight = 0

\* What a dimension resolves to: the value of a Fixed, the percentage of the
\* available extent of a Percent, 0 otherwise.
ResolvesTo(dim, available) ==
    IF dim.t = "fixed" THEN dim.value
    ELSE IF dim.t = "percent" THEN GoDiv(available * dim.value, 100)
    ELSE 0

\* The size aggregated from the children: what the same box measures when
\* neither Width nor Height is set.
Aggregated ==
    Measure(Box([args.props EXCEPT !.Width = DimensionUnset,
                                   !.Height = DimensionUnset], args.children),
            args.available[1], args.available[2])

\* C13: for a box with at least one child and no min/max, an explicit Width
\* that resolves to a value > 0 is the measured width exactly; a Width that
\* resolves to a value <= 0 (Auto, unset, Percent(0), a non-positive Fixed)
\* leaves the aggregated width unchanged; the same holds for Height.
C13_ExplicitDimensionOverrides ==
    (Returned("Measure") /\ Len(args.children) >= 1 /\ NoMinMax(args.props))
        => LET w == ResolvesTo(args.props.Width, args.available[1])
               h == ResolvesTo(args.props.Height, args.available[2])
           IN  /\ ret.size.Width = IF w > 0 THEN w ELSE Aggregated.Width
               /\ ret.size.Height = IF h > 0 THEN h ELSE Aggregated.Height

\* A box with Fixed(5) width and Percent(50) height measured 5 x 12 at 80x24,
\* where its children aggregate to something else.
C13_Witness ==
    /\ Returned("Measure")
    /\ Len(args.children) >= 1
    /\ NoMinMax(args.props)
    /\ args.props.Width = DimensionFixed(5)
    /\ args.props.Height = DimensionPercent(50)
    /\ args.available = <<80, 24>>
    /\ ret.size = [Width |-> 5, Height |-> 12]
    /\ Aggregated.Width # 5

\* ---------------------------------------------------------------- C14
\* The result r lies within a nonzero minimum and a nonzero maximum.
Within(r, min, max) ==
    /\ r >= 0
    /\ min # 0 => r >= min
    /\ max # 0 => r <= max

\* The result r of clamping with a minimum and a maximum that are >= 0:
\* within the maximum, and within the minimum unless the maximum is below it.
WithinMaxFirst(r, min, max) ==
    /\ r >= 0
    /\ max # 0 => r <= max
    /\ (min # 0 /\ (max = 0 \/ min <= max)) => r >= min

\* C14 as claimed: every Size produced by clamping (applyConstraints, and
\* measureBox of a box with children) has width >= 0, height >= 0 and
\* min <= result <= max on each axis for every nonzero min and max.
C14_ClampedWithinMinMax ==
    /\ Returned("applyConstraints")
         => /\ Within(ret.result.Width, args.minWidth, args.maxWidth)
            /\ Within(ret.result.Height, args.minHeight, args.maxHeight)
    /\ (Returned("Measure") /\ Len(args.children) >= 1)
         => /\ Within(ret.size.Width, args.props.MinWidth, args.props.MaxWidth)
            /\ Within(ret.size.Height, args.props.MinHeight, args.props.MaxHeight)

NonNegative(s) == s.Top >= 0 /\ s.Right >= 0 /\ s.Bottom >= 0 /\ s.Left >= 0

\* C14 amended: clamping a size of width, height >= 0 with constraints
\* >= 0 gives width >= 0, height >= 0, result <= max for every nonzero max,
\* and result >= min for every nonzero min that no nonzero max is below;
\* when 0 < max < min the maximum wins.  The same holds for measureBox of a
\* box with children of non-negative size, non-negative padding, margin and
\* gap and constraints >= 0.
C14_ClampedMaxWins ==
    /\ (/\ Returned("applyConstraints")
        /\ args.size.Width >= 0 /\ args.size.Height >= 0
        /\ args.minWidth >= 0 /\ args.maxWidth >= 0
        /\ args.minHeight >= 0 /\ args.maxHeight >= 0)
         => /\ WithinMaxFirst(ret.result.Width, args.minWidth, args.maxWidth)
            /\ WithinMaxFirst(ret.result.Height, args.minHeight, args.maxHeight)
    /\ (/\ Returned("Measure")
        /\ Len(args.children) >= 1
        /\ NonNegative(args.props.Padding) /\ NonNegative(args.props.Margin)
        /\ args.props.Gap >= 0
        /\ args.props.MinWidth >= 0 /\ args.props.MaxWidth >= 0
        /\ args.props.MinHeight >= 0 /\ args.props.MaxHeight >= 0
        /\ \A i \in 1..Len(args.children) :
              LET size == Measure(args.children[i], args.available[1],
                                  args.available[2])
              IN  size.Width >= 0 /\ size.Height >= 0)
         => /\ WithinMaxFirst(ret.size.Width, args.props.MinWidth, args.props.MaxWidth)
            /\ WithinMaxFirst(ret.size.Height, args.props.MinHeight,
                              args.props.MaxHeight)

\* A width 5 was clamped with minimum 3 and maximum 2: the maximum won.
C14_Witness ==
    /\ Returned("applyConstraints")
    /\ args.size = [Width |-> 5, Height |-> 5]
    /\ args.minWidth = 3 /\ args.maxWidth = 2
    /\ args.minHeight = 3 /\ args.maxHeight = 4
    /\ ret.result = [Width |-> 2, Height |-> 4]

\* ---------------------------------------------------------------- C15
\* C15 as claimed: for every percentage p and every integer available extent
\* a, negative values included, resolveDimension(Percent(p), a) is
\* floor(a * p / 100); Percent(0) gives 0 and Percent(100) gives a.
C15_PercentIsFloor ==
    (Returned("resolveDimension") /\ args.dim.t = "percent")
        => /\ ret.result = (args.available * args.dim.value) \div 100
           /\ args.dim.value = 0 => ret.result = 0
           /\ args.dim.value = 100 => ret.result = args.available

\* q is n / 100 with the fraction dropped: of the sign of n, and |q| is the
\* largest integer with |q| * 100 <= |n|.
TruncatedHundredth(q, n) ==
    /\ Abs(q) * 100 <= Abs(n)
    /\ Abs(n) < (Abs(q) + 1) * 100
    /\ q > 0 => n > 0
    /\ q < 0 => n < 0

\* C15 amended: resolveDimension(Percent(p), a) is a * p / 100 truncated
\* toward zero, which is floor(a * p / 100) when a * p >= 0 and the ceiling
\* when a * p < 0; Percent(0) gives 0 and Percent(100) gives a.
C15_PercentIsTruncated ==
    (Returned("resolveDimension") /\ args.dim.t = "percent")
        => /\ TruncatedHundredth(ret.result, args.available * args.dim.value)
           /\ args.available * args.dim.value >= 0
                => ret.result = (args.available * args.dim.value) \div 100
           /\ args.dim.value = 0 => ret.result = 0
           /\ args.dim.value = 100 => ret.result = args.available

\* 33 percent of -7 was resolved to -2, where the floor is -3.
C15_Witness ==
    /\ Returned("resolveDimension")
    /\ args.dim = DimensionPercent(33)
    /\ args.available = -7
    /\ ret.result = -2

\* ---------------------------------------------------------------- C16
\* C16: Text(content, TextProps{Wrap: w}).Measure(availableWidth,
\* availableHeight) returns the width and height that
\* measureText(content, w, availableWidth) returns.
C16_TextMeasureIsMeasureText ==
    (args.op = "text.Measure" /\ ret.op = "text.Measure")
        => ret.size = ret.measureText

\* ---------------------------------------------------------------- the program
MaxPending == 1

WindowSizeMsg(width, height) ==
    [type |-> "WindowSizeMsg", Width |-> width, Height |-> height]

KeyMsg(keyType) == [type |-> "KeyMsg", Type |-> keyType]

\* The messages the terminal sends, and a message of the user's own.
Msgs ==
    {WindowSizeMsg(d[1], d[2]) : d \in Dims}
    \cup {KeyMsg("KeyCtrlC"), KeyMsg("KeyEnter"), [type |-> "tickMsg"]}

\* The commands a user's update function returns; "nil" is no command.
Cmds == {"nil", "Quit", "Tick"}

\* Mutant: Ctrl+C quits before the user's update function is invoked.
UpdateQuitFirst(msg, userCmd) ==
    IF msg.type = "KeyMsg" /\ msg.Type = "KeyCtrlC"
    THEN [calls |-> 0, userCmd |-> "nil",
          engine |-> <<terminalWidth, terminalHeight>>, cmd |-> "Quit"]
    ELSE [calls |-> IF run.updateFunc THEN 1 ELSE 0,
          userCmd |-> IF run.updateFunc THEN userCmd ELSE "nil",
          engine |-> IF msg.type = "WindowSizeMsg"
                     THEN <<msg.Width, msg.Height>>
                     ELSE <<terminalWidth, terminalHeight>>,
          cmd |-> IF run.updateFunc THEN userCmd ELSE "nil"]

\* model.Update(msg), where the user's update function (if set) returns
\* userCmd: how often that function was invoked, the size of the engine
\* afterwards, and the command returned.
Update(msg, userCmd) ==
    LET calls == IF run.updateFunc THEN 1 ELSE 0
        cmd == IF run.updateFunc THEN userCmd ELSE "nil"
    IN  [calls |-> calls, userCmd |-> cmd,
         engine |-> IF msg.type = "WindowSizeMsg"
                    THEN <<msg.Width, msg.Height>>
                    ELSE <<terminalWidth, terminalHeight>>,
         cmd |-> IF msg.type = "KeyMsg" /\ msg.Type = "KeyCtrlC"
                 THEN "Quit" ELSE cmd]

\* app.Run(): the program starts; no context is involved.
RunCall ==
    /\ ~panicked
    /\ run.status = "new"
    /\ run' = [run EXCEPT !.status = "running"]
    /\ ret' = [op |-> "Run"]
    /\ UNCHANGED <<args, views, root, logs, terminalWidth, terminalHeight, managers,
                   currentStaticManager, tree, last, recorded, panicked>>

\* app.RunContext(ctx) with a context that is not cancelled yet: the program
\* is created without the context and started.
RunContextCall ==
    /\ ~panicked
    /\ run.status = "new"
    /\ run' = [run EXCEPT !.status = "running", !.ctx = "live"]
    /\ ret' = [op |-> "RunContext"]
    /\ UNCHANGED <<args, views, root, logs, terminalWidth, terminalHeight, managers,
                   currentStaticManager, tree, last, recorded, panicked>>

\* The caller of RunContext cancels the context.
CancelContext ==
    /\ run.ctx = "live"
    /\ run' = [run EXCEPT !.ctx = "cancelled"]
    /\ UNCHANGED <<args, views, root, logs, terminalWidth, terminalHeight, managers,
                   currentStaticManager, tree, last, recorded, ret, panicked>>

\* The terminal or a command delivers a message to the running program.
Send(msg) ==
    /\ ~panicked
    /\ run.status = "running"
    /\ Len(run.pending) < MaxPending
    /\ run' = [run EXCEPT !.pending = Append(@, msg)]
    /\ UNCHANGED <<args, views, root, logs, terminalWidth, terminalHeight, managers,
                   currentStaticManager, tree, last, recorded, ret, panicked>>

\* The program's event loop hands the next message to model.Update and runs
\* the command it returns; on tea.Quit the program stops and Run returns.
UpdateCall ==
    /\ ~panicked
    /\ run.status = "running"
    /\ run.pending # <<>>
    /\ \E userCmd \in IF run.updateFunc THEN Cmds ELSE {"nil"} :
          LET msg == Head(run.pending)
              u == Update(msg, userCmd)
          IN  /\ terminalWidth' = u.engine[1]
              /\ terminalHeight' = u.engine[2]
              /\ ret' = [op |-> "Update", msg |-> msg, calls |-> u.calls,
                         userCmd |-> u.userCmd, cmd |-> u.cmd]
              /\ run' = [run EXCEPT
                           !.pending = Tail(@),
                           !.status = IF u.cmd = "Quit" THEN "returned" ELSE @,
                           !.lastWindowSize = IF msg.type = "WindowSizeMsg"
                                              THEN msg ELSE @]
    /\ UNCHANGED <<args, views, root, logs, managers, currentStaticManager, tree, last,
                   recorded, panicked>>

\* New(rootFunc) or New(rootFunc, WithUpdate(fn)); the root is a Text that
\* is truncated to the terminal's width.
InitRun ==
    /\ run \in {NewApp(withUpdate) : withUpdate \in BOOLEAN}
    /\ root = Text(Wide, "WrapTruncate")
    /\ logs = <<>>
    /\ terminalWidth = 80
    /\ terminalHeight = 24
    /\ managers = [id \in ManagerIds |-> NewStaticManager]
    /\ currentStaticManager = Nil
    /\ tree = NoTree
    /\ last = NoCall
    /\ recorded = [id \in ManagerIds |-> {}]
    /\ views = NoViews
    /\ ret = NoCall
    /\ panicked = FALSE
    /\ args = NoCall

NextRun ==
    \/ RunCall
    \/ RunContextCall
    \/ CancelContext
    \/ \E msg \in Msgs : Send(msg)
    \/ UpdateCall
    \/ View

\* The event loop of a running program handles every message it is sent.
SpecRun == InitRun /\ [][NextRun]_vars /\ WF_vars(UpdateCall)

\* ---------------------------------------------------------------- C17
\* C17: RunContext(ctx) ties the program to ctx: once ctx is cancelled, the
\* program stops and RunContext eventually returns.
C17_CancelledContextStopsProgram ==
    (run.ctx = "cancelled") ~> (run.status = "returned")

\* ---------------------------------------------------------------- C18
IsCtrlC(msg) == msg.type = "KeyMsg" /\ msg.Type = "KeyCtrlC"

\* C18: for every message delivered to Update, the user's update function
\* (when one is set) is invoked exactly once; Ctrl+C returns the Quit
\* command whatever the user's command is; every other message returns
\* exactly the user's command, nil when no update function is set.
C18_UpdateInvokesUserOnce ==
    ret.op = "Update"
        => /\ ret.calls = IF run.updateFunc THEN 1 ELSE 0
           /\ ~run.updateFunc => ret.userCmd = "nil"
           /\ IsCtrlC(ret.msg) => ret.cmd = "Quit"
           /\ ~IsCtrlC(ret.msg) => ret.cmd = ret.userCmd

\* Update handled Ctrl+C: the user's function ran once and returned its own
\* command, and Update returned Quit.
C18_Witness ==
    /\ ret.op = "Update"
    /\ run.updateFunc
    /\ IsCtrlC(ret.msg)
    /\ ret.calls = 1
    /\ ret.userCmd = "Tick"
    /\ ret.cmd = "Quit"

\* ---------------------------------------------------------------- C19
\* The size the engine must have: that of the most recent WindowSizeMsg
\* handled, 80x24 before the first.
ExpectedSize ==
    IF run.lastWindowSize = NoMsg THEN <<80, 24>>
    ELSE <<run.lastWindowSize.Width, run.lastWindowSize.Height>>

\* The root of the program is five runes wide and truncated to the width.
TruncatedWidth(width) == IF 5 > width THEN width ELSE 5

\* C19: an App lays out at 80x24 until a WindowSizeMsg arrives; after any
\* sequence of messages the dimensions used by the next View are those of
\* the most recent WindowSizeMsg; no other kind of message changes them.
C19_ViewUsesLastWindowSize ==
    /\ [](/\ terminalWidth = ExpectedSize[1]
          /\ terminalHeight = ExpectedSize[2]
          /\ (ret.op = "View" /\ ~panicked)
               => /\ last.inputs.width = ExpectedSize[1]
                  /\ last.inputs.height = ExpectedSize[2]
                  /\ tree.Layout.Width = TruncatedWidth(ExpectedSize[1]))
    /\ [][(/\ run.pending # <<>>
           /\ run'.pending = Tail(run.pending)
           /\ Head(run.pending).type # "WindowSizeMsg")
            => (terminalWidth' = terminalWidth /\ terminalHeight' = terminalHeight)]_vars

\* A View after the messages WindowSizeMsg{3, 2} and a key laid out at 3x2.
C19_Witness ==
    /\ ret.op = "View"
    /\ run.lastWindowSize = WindowSizeMsg(3, 2)
    /\ tree.Layout.Width = 3
    /\ last.inputs.width = 3
    /\ last.inputs.height = 2

\* ---------------------------------------------------------------- C20
\* The extent of the one child of the box measured, a box of Percent(50)
\* width and height around a 1x1 Text, when it resolves its percentage
\* against the extent inner.
HalfOf(inner) ==
    IF ResolvesTo(DimensionPercent(50), inner) > 0
    THEN ResolvesTo(DimensionPercent(50), inner)
    ELSE 1

\* C20: padding shrinks the space available to the children: the available
\* width and height handed to a child are those of the box less its
\* padding, so a nested Percent child resolves against the reduced extent.
\* Seen from outside: a box without explicit size around one Percent(50)
\* child measures half of the extent inside its padding, plus its own
\* padding, margin and border.
C20_PaddingShrinksAvailable ==
    (/\ Returned("Measure")
     /\ args.children = <<PercentChild>>
     /\ args.props.Width = DimensionUnset /\ args.props.Height = DimensionUnset
     /\ NoMinMax(args.props)
     /\ NonNegative(args.props.Padding))
        => /\ ret.size.Width =
                HalfOf(args.available[1] - spacingWidth(args.props.Padding))
                  + spacingWidthOf(args.props)
           /\ ret.size.Height =
                HalfOf(args.available[2] - spacingHeight(args.props.Padding))
                  + spacingHeightOf(args.props)

\* ---------------------------------------------------------------- boxes with flex properties
\* FlexSpacer(): an empty Box with FlexGrow 1.
FlexSpacer == Box([BoxProps EXCEPT !.FlexGrow = 1], <<>>)

Aligns == {"AlignStart", "AlignCenter", "AlignEnd", "AlignStretch"}

Justifies ==
    {"JustifyStart", "JustifyCenter", "JustifyEnd", "JustifySpaceBetween",
     "JustifySpaceAround"}

FlexProps ==
    {[BoxProps EXCEPT !.Direction = d, !.AlignItems = a, !.JustifyContent = j,
                      !.FlexGrow = g, !.FlexShrink = k,
                      !.Gap = 2, !.Padding = Spacing(1, 0, 2, 1)] :
        d \in {"Column", "Row"}, a \in Aligns,
        j \in {"JustifyStart", "JustifyCenter", "JustifySpaceBetween"},
        g \in {0, 1}, k \in {0, 1}}

InnerFlexBox ==
    Box([BoxProps EXCEPT !.Direction = "Row", !.AlignItems = "AlignEnd",
                         !.JustifyContent = "JustifySpaceAround",
                         !.FlexGrow = 2, !.FlexShrink = 1],
        <<Text(<<"a">>, "WrapNone"), FlexSpacer>>)

FlexChildLists ==
    {<<Text(<<"a", "b">>, "WrapNone"), FlexSpacer, Text(<<"a">>, "WrapNone")>>,
     <<InnerFlexBox, Text(<<"a", "b">>, "WrapNone")>>,
     <<Text(Wide, "WrapTruncate")>>}

FlexRoots == {Box(props, children) : props \in FlexProps, children \in FlexChildLists}

InitLayoutFlex == InitState(FlexRoots)

SpecLayoutFlex == InitLayoutFlex /\ [][Next]_vars

\* ---------------------------------------------------------------- C21
RECURSIVE WithoutFlex(_)
\* The component tree with AlignItems, JustifyContent, FlexGrow and
\* FlexShrink of every box set to their zero values.
WithoutFlex(c) ==
    CASE c.kind = "box" ->
            Box([c.props EXCEPT !.AlignItems = BoxProps.AlignItems,
                                !.JustifyContent = BoxProps.JustifyContent,
                                !.FlexGrow = BoxProps.FlexGrow,
                                !.FlexShrink = BoxProps.FlexShrink],
                [i \in 1..Len(c.children) |-> WithoutFlex(c.children[i])])
      [] c.kind = "func" -> ComponentFunc(WithoutFlex(c.f))
      [] OTHER -> c

RECURSIVE LayoutsOf(_)
\* The Layout of every node of a LayoutTree, in the shape of the tree.
LayoutsOf(t) ==
    [Layout |-> t.Layout,
     Children |-> [i \in 1..Len(t.Children) |-> LayoutsOf(t.Children[i])]]

FlexChild(grow, shrink) == [FlexGrow |-> grow, FlexShrink |-> shrink]

RECURSIVE totalGrowOf(_, _)
\* The first loop of calculateFlexGrow.
totalGrowOf(children, i) ==
    IF i > Len(children) THEN 0
    ELSE children[i].FlexGrow + totalGrowOf(children, i + 1)

RECURSIVE totalShrinkOf(_, _)
\* The first loop of calculateFlexShrink.
totalShrinkOf(children, i) ==
    IF i > Len(children) THEN 0
    ELSE children[i].FlexShrink + totalShrinkOf(children, i + 1)

\* Mutant: every share is rounded up.
calculateFlexGrowRoundsUp(children, extraSpace) ==
    LET totalGrow == totalGrowOf(children, 1)
    IN  IF extraSpace <= 0 \/ totalGrow = 0
        THEN [i \in 1..Len(children) |-> 0]
        ELSE [i \in 1..Len(children) |->
                GoDiv(extraSpace * children[i].FlexGrow + totalGrow - 1, totalGrow)]

\* int(float64(extraSpace) * child.FlexGrow / totalGrow): the quotient with
\* its fraction dropped.
calculateFlexGrow(children, extraSpace) ==
    LET totalGrow == totalGrowOf(children, 1)
    IN  IF extraSpace <= 0 \/ totalGrow = 0
        THEN [i \in 1..Len(children) |-> 0]
        ELSE [i \in 1..Len(children) |->
                GoDiv(extraSpace * children[i].FlexGrow, totalGrow)]

calculateFlexShrink(children, deficit) ==
    LET totalShrink == totalShrinkOf(children, 1)
    IN  IF deficit <= 0 \/ totalShrink = 0
        THEN [i \in 1..Len(children) |-> 0]
        ELSE [i \in 1..Len(children) |->
                GoDiv(deficit * children[i].FlexShrink, totalShrink)]

\* ---------------------------------------------------------------- inputs of the flex calls
MaxFlexChildren == 3

FlexChildren ==
    {FlexChild(0, 0), FlexChild(1, 2), FlexChild(2, 1), FlexChild(3, 0),
     FlexChild(-1, 1), FlexChild(5, -1)}

FlexLists == UNION {[1..n -> FlexChildren] : n \in 0..MaxFlexChildren}

Spaces == {-1, 0, 1, 2, 3, 10}

FlexGrowArgs == [op : {"calculateFlexGrow"}, children : FlexLists, space : Spaces]

FlexShrinkArgs == [op : {"calculateFlexShrink"}, children : FlexLists, space : Spaces]

\* ---------------------------------------------------------------- the flex calls
CalculateFlexGrowCall ==
    /\ ~panicked
    /\ args.op = "calculateFlexGrow"
    /\ ret' = [op |-> "calculateFlexGrow",
               result |-> calculateFlexGrow(args.children, args.space)]
    /\ UNCHANGED <<args, views, run, root, logs, terminalWidth, terminalHeight, managers,
                   currentStaticManager, tree, last, recorded, panicked>>

CalculateFlexShrinkCall ==
    /\ ~panicked
    /\ args.op = "calculateFlexShrink"
    /\ ret' = [op |-> "calculateFlexShrink",
               result |-> calculateFlexShrink(args.children, args.space)]
    /\ UNCHANGED <<args, views, run, root, logs, terminalWidth, terminalHeight, managers,
                   currentStaticManager, tree, last, recorded, panicked>>

\* ---------------------------------------------------------------- C22
\* floor(n / d) for d # 0
Floor(n, d) == IF d > 0 THEN n \div d ELSE (-n) \div (-d)

\* The weights of the call that returned: grow or shrink, by the function.
Weights ==
    [i \in 1..Len(args.children) |->
        IF args.op = "calculateFlexGrow" THEN args.children[i].FlexGrow
        ELSE args.children[i].FlexShrink]

\* One of the two distribution functions returned for a space > 0 and a
\* nonzero total weight.
Distributed ==
    /\ Returned("calculateFlexGrow") \/ Returned("calculateFlexShrink")
    /\ args.space > 0
    /\ SumOver(Weights, Len(Weights)) # 0

\* Every share is the floor of space * weight / total and the shares sum to
\* at most the space.
FloorShares ==
    LET total == SumOver(Weights, Len(Weights))
    IN  /\ Len(ret.result) = Len(args.children)
        /\ \A i \in 1..Len(ret.result) :
              ret.result[i] = Floor(args.space * Weights[i], total)
        /\ SumOver(ret.result, Len(ret.result)) <= args.space

Layout(x, y, width, height) == [X |-> x, Y |-> y, Width |-> width, Height |-> height]

\* Mutant: centring moves a child from where it is.
alignChildRelative(child, props, crossSize) ==
    IF props.Direction = "Column"
    THEN CASE props.AlignItems = "AlignCenter" ->
                [child EXCEPT !.X = @ + GoDiv(crossSize - child.Width, 2)]
           [] props.AlignItems = "AlignEnd" ->
                [child EXCEPT !.X = crossSize - child.Width]
           [] props.AlignItems = "AlignStretch" ->
                [child EXCEPT !.Width = crossSize]
           [] OTHER -> child
    ELSE CASE props.AlignItems = "AlignCenter" ->
                [child EXCEPT !.Y = @ + GoDiv(crossSize - child.Height, 2)]
           [] props.AlignItems = "AlignEnd" ->
                [child EXCEPT !.Y = crossSize - child.Height]
           [] props.AlignItems = "AlignStretch" ->
                [child EXCEPT !.Height = crossSize]
           [] OTHER -> child

\* The body of the loop of alignItems.
alignChild(child, props, crossSize) ==
    IF props.Direction = "Column"
    THEN CASE props.AlignItems = "AlignCenter" ->
                [child EXCEPT !.X = GoDiv(crossSize - child.Width, 2)]
           [] props.AlignItems = "AlignEnd" ->
                [child EXCEPT !.X = crossSize - child.Width]
           [] props.AlignItems = "AlignStretch" ->
                [child EXCEPT !.Width = crossSize]
           [] OTHER -> child
    ELSE CASE props.AlignItems = "AlignCenter" ->
                [child EXCEPT !.Y = GoDiv(crossSize - child.Height, 2)]
           [] props.AlignItems = "AlignEnd" ->
                [child EXCEPT !.Y = crossSize - child.Height]
           [] props.AlignItems = "AlignStretch" ->
                [child EXCEPT !.Height = crossSize]
           [] OTHER -> child

\* Mutant: the last child is not aligned.
alignItemsButLast(children, props, crossSize) ==
    [i \in 1..Len(children) |->
        IF i = Len(children) /\ i > 1 THEN children[i]
        ELSE alignChild(children[i], props, crossSize)]

alignItems(children, props, crossSize) ==
    [i \in 1..Len(children) |-> alignChild(children[i], props, crossSize)]

getTotalHeight(children) ==
    IF Len(children) = 0 THEN 0
    ELSE children[Len(children)].Y + children[Len(children)].Height - children[1].Y

getTotalWidth(children) ==
    IF Len(children) = 0 THEN 0
    ELSE children[Len(children)].X + children[Len(children)].Width - children[1].X

RECURSIVE spaceBetweenColumn(_, _, _)
\* The loop of JustifySpaceBetween in justifyColumn: children[i] is placed
\* after children[i-1] as the loop has left it.
spaceBetweenColumn(children, i, space) ==
    IF i > Len(children) THEN children
    ELSE spaceBetweenColumn(
           [children EXCEPT ![i].Y = children[i - 1].Y + children[i - 1].Height + space],
           i + 1, space)

RECURSIVE spaceBetweenRow(_, _, _)
\* The loop of JustifySpaceBetween in justifyRow.
spaceBetweenRow(children, i, space) ==
    IF i > Len(children) THEN children
    ELSE spaceBetweenRow(
           [children EXCEPT ![i].X = children[i - 1].X + children[i - 1].Width + space],
           i + 1, space)

justifyColumn(children, props, mainSize) ==
    LET n == Len(children)
        totalHeight == getTotalHeight(children)
    IN  CASE props.JustifyContent = "JustifyCenter" ->
               [i \in 1..n |->
                  [children[i] EXCEPT !.Y = @ + GoDiv(mainSize - totalHeight, 2)]]
          [] props.JustifyContent = "JustifyEnd" ->
               [i \in 1..n |-> [children[i] EXCEPT !.Y = @ + (mainSize - totalHeight)]]
          [] props.JustifyContent = "JustifySpaceBetween" ->
               IF n <= 1 THEN children
               ELSE spaceBetweenColumn(children, 2, GoDiv(mainSize - totalHeight, n - 1))
          [] props.JustifyContent = "JustifySpaceAround" ->
               LET space == GoDiv(mainSize - totalHeight, n)
                   halfSpace == GoDiv(space, 2)
               IN  [i \in 1..n |->
                      [children[i] EXCEPT
                         !.Y = halfSpace + (i - 1) * (children[i].Height + space)]]
          [] OTHER -> children

justifyRow(children, props, mainSize) ==
    LET n == Len(children)
        totalWidth == getTotalWidth(children)
    IN  CASE props.JustifyContent = "JustifyCenter" ->
               [i \in 1..n |->
                  [children[i] EXCEPT !.X = @ + GoDiv(mainSize - totalWidth, 2)]]
          [] props.JustifyContent = "JustifyEnd" ->
               [i \in 1..n |-> [children[i] EXCEPT !.X = @ + (mainSize - totalWidth)]]
          [] props.JustifyContent = "JustifySpaceBetween" ->
               IF n <= 1 THEN children
               ELSE spaceBetweenRow(children, 2, GoDiv(mainSize - totalWidth, n - 1))
          [] props.JustifyContent = "JustifySpaceAround" ->
               LET space == GoDiv(mainSize - totalWidth, n)
                   halfSpace == GoDiv(space, 2)
               IN  [i \in 1..n |->
                      [children[i] EXCEPT
                         !.X = halfSpace + (i - 1) * (children[i].Width + space)]]
          [] OTHER -> children

justifyContent(children, props, mainSize) ==
    IF Len(children) = 0 THEN children
    ELSE IF props.Direction = "Column"
    THEN justifyColumn(children, props, mainSize)
    ELSE justifyRow(children, props, mainSize)

\* ---------------------------------------------------------------- inputs of alignment and justification
AlignLayouts == {Layout(x, y, w, h) : x \in {0, 2}, y \in {0, 1}, w \in {1, 4}, h \in {2, 5}}

AlignLists == UNION {[1..n -> AlignLayouts] : n \in 0..2}

CrossSizes == {0, 3, 4, 10}

AlignItemsArgs ==
    [op : {"alignItems"}, children : AlignLists, Direction : {"Column", "Row"},
     AlignItems : Aligns, crossSize : CrossSizes]

RECURSIVE Stacked(_, _, _, _)
\* Children stacked along the main axis from start: extents[i] is the
\* extent of the i-th child and gaps[i] the space left before it.
Stacked(direction, start, extents, gaps) ==
    IF extents = <<>> THEN <<>>
    ELSE LET n == Len(extents)
             before == Stacked(direction, start, SubSeq(extents, 1, n - 1),
                               SubSeq(gaps, 1, n - 1))
             at == IF n = 1 THEN start
                   ELSE IF direction = "Column"
                   THEN before[n - 1].Y + before[n - 1].Height + gaps[n]
                   ELSE before[n - 1].X + before[n - 1].Width + gaps[n]
         IN  Append(before, IF direction = "Column"
                            THEN Layout(0, at, 1, extents[n])
                            ELSE Layout(at, 0, extents[n], 1))

StackedLists(direction) ==
    UNION {{Stacked(direction, start, extents, gaps) :
               start \in {0, 1}, extents \in [1..n -> {1, 3}],
               gaps \in [1..n -> {0, 2}]} : n \in 0..MaxFlexChildren}

\* The span of stacked children along the main axis.
SpanOf(direction, children) ==
    IF direction = "Column" THEN getTotalHeight(children) ELSE getTotalWidth(children)

\* mainSize is the span of the children and up to 4 more, or 1 less.
JustifyContentArgs ==
    {[op |-> "justifyContent", children |-> children, Direction |-> direction,
      JustifyContent |-> justify, mainSize |-> SpanOf(direction, children) + extra] :
        direction \in {"Column", "Row"}, children \in StackedLists("Column") \cup StackedLists("Row"),
        justify \in Justifies, extra \in {-1, 0, 1, 2, 4}}

\* ---------------------------------------------------------------- the calls of alignment and justification
\* The BoxProps of the call drawn.
PropsOf(a) ==
    IF a.op = "alignItems"
    THEN [BoxProps EXCEPT !.Direction = a.Direction, !.AlignItems = a.AlignItems]
    ELSE [BoxProps EXCEPT !.Direction = a.Direction, !.JustifyContent = a.JustifyContent]

AlignItemsCall ==
    /\ ~panicked
    /\ args.op = "alignItems"
    /\ ret' = [op |-> "alignItems",
               result |-> alignItems(args.children, PropsOf(args), args.crossSize)]
    /\ UNCHANGED <<args, views, run, root, logs, terminalWidth, terminalHeight, managers,
                   currentStaticManager, tree, last, recorded, panicked>>

JustifyContentCall ==
    /\ ~panicked
    /\ args.op = "justifyContent"
    /\ ret' = [op |-> "justifyContent",
               result |-> justifyContent(args.children, PropsOf(args), args.mainSize)]
    /\ UNCHANGED <<args, views, run, root, logs, terminalWidth, terminalHeight, managers,
                   currentStaticManager, tree, last, recorded, panicked>>

\* The arguments of one call are drawn; the App is as New leaves it.
InitFlex ==
    /\ args \in FlexGrowArgs \cup FlexShrinkArgs \cup AlignItemsArgs
                \cup JustifyContentArgs
    /\ root = Text(<<"a">>, "WrapNone")
    /\ logs = <<>>
    /\ terminalWidth = 80
    /\ terminalHeight = 24
    /\ managers = [id \in ManagerIds |-> NewStaticManager]
    /\ currentStaticManager = Nil
    /\ tree = NoTree
    /\ last = NoCall
    /\ recorded = [id \in ManagerIds |-> {}]
    /\ views = NoViews
    /\ ret = NoCall
    /\ panicked = FALSE
    /\ run = NewApp(FALSE)

NextFlex ==
    \/ CalculateFlexGrowCall
    \/ CalculateFlexShrinkCall
    \/ AlignItemsCall
    \/ JustifyContentCall

SpecFlex == InitFlex /\ [][NextFlex]_vars

\* ---------------------------------------------------------------- C23
\* q is d / 2 with the fraction dropped.
TruncatedHalf(q, d) ==
    /\ 2 * Abs(q) <= Abs(d)
    /\ Abs(d) < 2 * Abs(q) + 2
    /\ q > 0 => d > 0
    /\ q < 0 => d < 0

\* The child after differs from the child before at most in the field named.
SameBut(field, before, after) ==
    \A f \in {"X", "Y", "Width", "Height"} \ {field} : after[f] = before[f]

\* What alignItems must have done to one child: pos and extent name the
\* cross-axis fields, X and Width in a Column, Y and Height in a Row.
Aligned(align, pos, extent, crossSize, before, after) ==
    CASE align = "AlignStart" -> after = before
      [] align = "AlignCenter" ->
            /\ TruncatedHalf(after[pos], crossSize - before[extent])
            /\ SameBut(pos, before, after)
      [] align = "AlignEnd" ->
            /\ after[pos] = crossSize - before[extent]
            /\ SameBut(pos, before, after)
      [] align = "AlignStretch" ->
            /\ after[extent] = crossSize
            /\ SameBut(extent, before, after)

\* C23: alignItems on a Column container: AlignStart changes nothing;
\* AlignCenter sets each child's X to (crossSize - Width) / 2; AlignEnd sets
\* X to crossSize - Width; AlignStretch sets Width to crossSize; all other
\* Layout fields of each child are left unchanged.  For a Row container the
\* same holds with Y and Height in place of X and Width.
C23_AlignItemsFrame ==
    Returned("alignItems")
        => /\ Len(ret.result) = Len(args.children)
           /\ \A i \in 1..Len(args.children) :
                 IF args.Direction = "Column"
                 THEN Aligned(args.AlignItems, "X", "Width", args.crossSize,
                              args.children[i], ret.result[i])
                 ELSE Aligned(args.AlignItems, "Y", "Height", args.crossSize,
                              args.children[i], ret.result[i])

\* Two children of a Column were centred in a cross size of 10: the second,
\* 4 wide at X = 2, now is at X = 3.
C23_Witness ==
    /\ Returned("alignItems")
    /\ args.Direction = "Column"
    /\ args.AlignItems = "AlignCenter"
    /\ args.crossSize = 10
    /\ Len(args.children) = 2
    /\ args.children[2] = Layout(2, 1, 4, 5)
    /\ ret.result[2] = Layout(3, 1, 4, 5)

\* ---------------------------------------------------------------- C24
\* The start and the end of a child along the main axis.
StartOf(direction, child) == IF direction = "Column" THEN child.Y ELSE child.X

EndOf(direction, child) ==
    IF direction = "Column" THEN child.Y + child.Height ELSE child.X + child.Width

\* The children are in order along the main axis and do not overlap.
Ordered(direction, children) ==
    \A i \in 2..Len(children) :
        StartOf(direction, children[i]) >= EndOf(direction, children[i - 1])

\* C24: justifyContent with JustifySpaceBetween on n >= 2 positioned
\* children and a mainSize of at least their span keeps the first child
\* where it is and, whenever (mainSize - span) is divisible by n - 1, puts
\* the end of the last child at the first child's start plus mainSize; with
\* 0 or 1 children it changes nothing.
C24_SpaceBetweenReachesEnd ==
    (Returned("justifyContent") /\ args.JustifyContent = "JustifySpaceBetween")
        => LET n == Len(args.children)
               span == SpanOf(args.Direction, args.children)
           IN  /\ n <= 1 => ret.result = args.children
               /\ (/\ n >= 2
                   /\ Ordered(args.Direction, args.children)
                   /\ args.mainSize >= span)
                    => /\ ret.result[1] = args.children[1]
                       /\ (args.mainSize - span) % (n - 1) = 0
                            => EndOf(args.Direction, ret.result[n])
                                 = StartOf(args.Direction, args.children[1])
                                     + args.mainSize

\* ---------------------------------------------------------------- C27
\* C27: for every JustifyContent mode, if the children are in order along
\* the main axis without overlapping and mainSize is at least their span,
\* then after justifyContent they are still in the same order and still do
\* not overlap, for any mix of child sizes.
C27_JustifyKeepsOrder ==
    (/\ Returned("justifyContent")
     /\ Ordered(args.Direction, args.children)
     /\ args.mainSize >= SpanOf(args.Direction, args.children))
        => Ordered(args.Direction, ret.result)

\* ---------------------------------------------------------------- C30
\* C30: alignItems is idempotent: for every alignment mode, direction,
\* crossSize and list of child Layouts, applying it a second time with the
\* same arguments leaves the children as the first application left them;
\* justifyContent with JustifyStart changes nothing on any input.
C30_AlignItemsIdempotent ==
    /\ Returned("alignItems")
         => alignItems(ret.result, PropsOf(args), args.crossSize) = ret.result
    /\ (Returned("justifyContent") /\ args.JustifyContent = "JustifyStart")
         => ret.result = args.children

\* alignItems centred two children of a Row and moved both.
C30_Witness ==
    /\ Returned("alignItems")
    /\ args.Direction = "Row"
    /\ args.AlignItems = "AlignCenter"
    /\ Len(args.children) = 2
    /\ \A i \in 1..2 : ret.result[i] # args.children[i]
    /\ alignItems(ret.result, PropsOf(args), args.crossSize) = ret.result

\* ---------------------------------------------------------------- C25
RECURSIVE Occurrences(_, _)
\* How often a Text of the given content occurs in a rendered string,
\* inside borders included.
Occurrences(out, content) ==
    IF out = <<>> THEN 0
    ELSE LET atom == Head(out)
             here == IF "text" \in DOMAIN atom
                     THEN IF atom.text = content THEN 1 ELSE 0
                     ELSE IF "border" \in DOMAIN atom
                     THEN Occurrences(atom.content, content)
                     ELSE 0
         IN  here + Occurrences(Tail(out), content)

RECURSIVE LeafTexts(_)
\* The contents of the Text leaves of a component tree outside its Statics.
LeafTexts(c) ==
    CASE c.kind = "text" -> {c.content}
      [] c.kind = "box" -> UNION {LeafTexts(c.children[i]) : i \in 1..Len(c.children)}
      [] c.kind = "func" -> LeafTexts(c.f)
      [] OTHER -> {}

\* The lines of the Static zone that no Text outside the zone also shows.
ZoneLines == {i \in 1..Len(logs) : logs[i] \notin LeafTexts(root)}

\* The texts of the lines in the static buffer of the App.
BufferTexts ==
    [j \in 1..Len(managers["app"].staticBuffer) |->
        managers["app"].staticBuffer[j][1].text]

RECURSIVE Unconstrained(_)
\* Boxes and texts only, with non-negative padding, margin and gap, no explicit
\* Width or Height and no max constraints.
Unconstrained(c) ==
    CASE c.kind = "text" -> TRUE
      [] c.kind = "box" ->
            /\ NonNegative(c.props.Padding) /\ NonNegative(c.props.Margin)
            /\ c.props.Gap >= 0
            /\ c.props.Width.t \in {"unset", "auto"}
            /\ c.props.Height.t \in {"unset", "auto"}
            /\ c.props.MaxWidth = 0 /\ c.props.MaxHeight = 0
            /\ \A i \in 1..Len(c.children) : Unconstrained(c.children[i])
      [] OTHER -> FALSE

\* The rectangle at (x, y) of the given size lies inside the rectangle p.
Inside(x, y, width, height, p) ==
    /\ p.X <= x /\ x + width <= p.X + p.Width
    /\ p.Y <= y /\ y + height <= p.Y + p.Height

\* C26 (as claimed): in every LayoutTree of boxes and texts with non-negative
\* padding, margin and gap, no explicit Width or Height and no max
\* constraints, each child's rectangle lies inside its parent's rectangle.
C26_ChildInsideParent ==
    (tree # NoTree /\ Unconstrained(tree.Component)) =>
        \A n \in BoxNodes(tree) : \A i \in 1..Len(n.Children) :
            LET child == n.Children[i].Layout
            IN  Inside(child.X, child.Y, child.Width, child.Height, n.Layout)

\* C26 (amended): the rectangle that starts at the child's origin, its
\* Layout.X and Layout.Y less its own left and top margin, and has the
\* child's Width and Height lies inside the parent's rectangle, and the
\* child's Layout.X and Layout.Y are not before the parent's.
C26_ChildOriginInsideParent ==
    (tree # NoTree /\ Unconstrained(tree.Component)) =>
        \A n \in BoxNodes(tree) : \A i \in 1..Len(n.Children) :
            LET child == n.Children[i]
            IN  /\ Inside(child.Layout.X - MarginLeftOf(child.Component),
                          child.Layout.Y - MarginTopOf(child.Component),
                          child.Layout.Width, child.Layout.Height, n.Layout)
                /\ n.Layout.X <= child.Layout.X
                /\ n.Layout.Y <= child.Layout.Y

\* A box with padding and a border was laid out around a child box that has
\* a left and a top margin, and a text after it.
C26_Witness ==
    /\ tree # NoTree /\ Unconstrained(tree.Component)
    /\ IsBox(tree.Component)
    /\ tree.Component.props.Padding.Left > 0
    /\ tree.Component.props.Border # "BorderNone"
    /\ Len(tree.Children) = 2
    /\ MarginLeftOf(tree.Children[1].Component) > 0
    /\ MarginTopOf(tree.Children[1].Component) > 0
    /\ tree.Children[2].Component.kind = "text"
    /\ tree.Children[2].Layout.Width > 0

\* ---------------------------------------------------------------- C28
\* C28 (as claimed): renderTree renders every component exactly once: the
\* content of each Text leaf of the root occurs exactly once in the string
\* View() returns, whatever the leaf's nesting depth (a leaf whose content is
\* also a line of the Static zone is left out of the count).
C28_EveryLeafRenderedOnce ==
    (ret.op = "View" /\ ~panicked) =>
        \A content \in LeafTexts(root) :
            (\A i \in 1..Len(logs) : logs[i] # content)
                => Occurrences(ret.out, content) = 1

\* ---------------------------------------------------------------- interleaved Views
\* Two Apps, each with its own StaticManager, built over the same root
\* function; each App's View() runs on the goroutine of its own program, and
\* currentStaticManager is one unsynchronised package-level variable.

\* View of App a, line 99: SetStaticManager(m.app.staticManager), and the
\* deferred reset is registered.
ViewSetStaticManager(a) ==
    /\ ~panicked
    /\ views[a].pc = "idle"
    /\ currentStaticManager' = ManagerRef(a)
    /\ views' = [views EXCEPT ![a].pc = "render"]
    /\ ret' = [op |-> "ViewSetStaticManager", app |-> a]
    /\ UNCHANGED <<args, run, root, logs, terminalWidth, terminalHeight, managers,
                   tree, last, recorded, panicked>>

\* View of App a, lines 102-106: the root, its layout, the App's static
\* buffer, and renderTree, whose Static renders read currentStaticManager.
ViewRenderTree(a) ==
    /\ ~panicked
    /\ views[a].pc = "render"
    /\ LET t == CalculateLayout(root)
       IN  IF IsPanic(t)
           THEN /\ panicked' = TRUE
                /\ ret' = [op |-> "ViewRenderTree", app |-> a]
                /\ UNCHANGED <<tree, last, managers, recorded, views>>
           ELSE LET staticContent == RenderStatic(managers[a])
                    r == renderTree(t, currentStaticManager, managers)
                    rendersStatic == StaticKeysIn(root) # {}
                IN  /\ tree' = t
                    /\ last' = Recorded
                    /\ managers' = r.mgrs
                    /\ recorded' =
                          IF currentStaticManager = Nil THEN recorded
                          ELSE [recorded EXCEPT ![currentStaticManager.id] =
                                                    @ \cup StaticKeysIn(root)]
                    /\ views' =
                          [views EXCEPT
                              ![a].pc = "return",
                              ![a].observed =
                                  IF rendersStatic THEN @ \cup {currentStaticManager}
                                  ELSE @,
                              ![a].appended =
                                  @ \cup {id \in ManagerIds : r.mgrs[id] # managers[id]}]
                    /\ ret' = [op |-> "ViewRenderTree", app |-> a,
                               static |-> staticContent, dynamic |-> r.out]
                    /\ UNCHANGED panicked
    /\ UNCHANGED <<args, run, root, logs, terminalWidth, terminalHeight,
                   currentStaticManager>>

\* View of App a returns: the deferred SetStaticManager(nil) runs.
ViewReturn(a) ==
    /\ ~panicked
    /\ views[a].pc = "return"
    /\ currentStaticManager' = Nil
    /\ views' = [views EXCEPT ![a].pc = "idle"]
    /\ ret' = [op |-> "ViewReturn", app |-> a]
    /\ UNCHANGED <<args, run, root, logs, terminalWidth, terminalHeight, managers,
                   tree, last, recorded, panicked>>

NextViews ==
    \/ AddLog
    \/ \E a \in ManagerIds : ViewSetStaticManager(a)
    \/ \E a \in ManagerIds : ViewRenderTree(a)
    \/ \E a \in ManagerIds : ViewReturn(a)

\* Roots with one Static zone, alone and inside a box.
ViewRoots == {r \in AppRoots : StaticKeysIn(r) = {"logs"}}

InitViews == InitState(ViewRoots)

SpecViews == InitViews /\ [][NextViews]_vars

\* ---------------------------------------------------------------- C29
\* C29 (as claimed): when the View() calls of two different Apps interleave,
\* Static lines are appended only to the manager of the App whose View
\* rendered them, and no Static render observes a nil or a foreign manager
\* while its own App's View is in progress.
C29_StaticStaysWithItsApp ==
    \A a \in ManagerIds :
        /\ views[a].appended \subseteq {a}
        /\ views[a].observed \subseteq {ManagerRef(a)}

====
